---- MODULE Spec2Model ----
(***************************************************************************)
(* Context engineering core of FinAgent-MCP: ContextPacker.pack            *)
(* (apps/mcp/src/core/context) and EvidenceBuilder.build                   *)
(* (apps/mcp/src/core/evidence), modelled as invocations running on one    *)
(* JavaScript event loop.                                                  *)
(*                                                                         *)
(* Representation.                                                         *)
(*  - A JavaScript value is a record [t, v]: t is the type tag, v the      *)
(*    payload.                                                             *)
(*  - A string is a sequence of words (the whitespace-delimited runs of    *)
(*    the string); a word is the sequence of its lower-cased \w+ runs, so  *)
(*    "$45.00" is <<"45","00">> and "(Food" is <<"food">>.  The word count *)
(*    is what estimateTokenCount reads, the runs are what tokenize reads.  *)
(*  - An object is the sequence of its [k, v] entries in insertion order.  *)
(*  - Relevance scores are kept in tenths (relevance 1.5 is 15); a         *)
(*    diversity multiplier is an exact fraction [n, d]; a confidence score *)
(*    is its tenths and the ulps its double lies above them.               *)
(*  - Time is counted in hours since 2024-01-01T00:00Z.                    *)
(***************************************************************************)
EXTENDS Integers, Sequences, FiniteSets, TLC

VARIABLES data, now, inv, orders, redis, calls, admitted, registry, execs, history

\* the state of the order rate limiter of the ingestion service, and of the
\* ToolRegistry of the MCP server
limiterVars == <<redis, calls, admitted>>
registryVars == <<registry, execs, history>>

vars == <<data, now, inv, orders, limiterVars, registryVars>>

-----------------------------------------------------------------------------
(* Bounds of the model *)

\* longest record list handed to an invocation
MaxRecords == 3
\* words of the long free-text description
LongWords == 50
\* hours the clock may advance
MaxTicks == 1

\* the calls of place_crypto_order in a run
MaxOrders == 1
\* order requests of one user handled together
NumRequests == 3
\* execute calls in a run of the registry
NumExecs == 3
\* invocations that may be in flight together
NumInv == 3

-----------------------------------------------------------------------------
(* JavaScript values *)

Undef == [t |-> "undefined", v |-> 0]
Null == [t |-> "null", v |-> 0]
NaN == [t |-> "NaN", v |-> 0]
Num(n) == [t |-> "number", v |-> n]
Bool(b) == [t |-> "boolean", v |-> b]
Str(s) == [t |-> "string", v |-> s]
Arr(a) == [t |-> "array", v |-> a]
Obj(entries) == [t |-> "object", v |-> entries]

\* one-word string
S1(w) == Str(<<<<w>>>>)

\* ToBoolean
Truthy(x) ==
  CASE x.t \in {"undefined", "null", "NaN"} -> FALSE
    [] x.t = "number" -> x.v # 0
    [] x.t = "boolean" -> x.v
    [] x.t = "string" -> x.v # <<>>
    [] OTHER -> TRUE

\* a || b
Or(a, b) == IF Truthy(a) THEN a ELSE b

\* a === b (on primitives)
StrictEq(a, b) == a.t = b.t /\ a.t # "NaN" /\ a.v = b.v

Abs(n) == IF n < 0 THEN -n ELSE n

Min(a, b) == IF a < b THEN a ELSE b

\* the decimal numerals a string of the model may spell
Numerals == 0..99

\* ToNumber
ToNumber(x) ==
  CASE x.t = "number" -> x
    [] x.t = "null" -> Num(0)
    [] x.t = "boolean" -> Num(IF x.v THEN 1 ELSE 0)
    [] x.t = "string" ->
         IF x.v = <<>> THEN Num(0)
         ELSE IF Len(x.v) = 1 /\ Len(x.v[1]) = 1
                 /\ \E n \in Numerals : ToString(n) = x.v[1][1]
              THEN Num(CHOOSE n \in Numerals : ToString(n) = x.v[1][1])
              ELSE NaN
    [] OTHER -> NaN

\* Math.abs(x)
MathAbs(x) == LET n == ToNumber(x) IN IF n.t = "number" THEN Num(Abs(n.v)) ELSE NaN

\* obj[key]; the item is an object
Get(o, key) ==
  IF \E i \in 1..Len(o.v) : o.v[i].k = key
  THEN o.v[CHOOSE i \in 1..Len(o.v) : o.v[i].k = key].v
  ELSE Undef

\* typeof x.toFixed === 'function'
HasToFixed(x) == x.t \in {"number", "NaN"}

\* the single word x.toFixed(2) prints (amounts of the model are whole)
ToFixed2(x) == IF x.t = "NaN" THEN <<"nan">> ELSE <<ToString(Abs(x.v)), "00">>

RECURSIVE JoinGlued(_)
\* the words of texts written one after the other with only punctuation between
JoinGlued(ts) ==
  IF ts = <<>> THEN <<>>
  ELSE LET rest == JoinGlued(Tail(ts))
           h == IF Head(ts) = <<>> THEN <<<<>>>> ELSE Head(ts)
       IN IF rest = <<>> THEN h
          ELSE SubSeq(h, 1, Len(h) - 1) \o <<h[Len(h)] \o Head(rest)>> \o Tail(rest)

RECURSIVE ToText(_)
\* String(x), as words
ToText(x) ==
  CASE x.t = "string" -> x.v
    [] x.t = "number" -> <<<<ToString(Abs(x.v))>>>>
    [] x.t = "NaN" -> <<<<"nan">>>>
    [] x.t = "undefined" -> <<<<"undefined">>>>
    [] x.t = "null" -> <<<<"null">>>>
    [] x.t = "boolean" -> <<<<IF x.v THEN "true" ELSE "false">>>>
    [] x.t = "array" ->
         JoinGlued([i \in 1..Len(x.v) |->
                      IF x.v[i].t \in {"undefined", "null"} THEN <<>> ELSE ToText(x.v[i])])
    [] OTHER -> <<<<"object">>, <<"object">>>>

\* `${x}` with punctuation attached to it: at least one word
Glued(x) == IF ToText(x) = <<>> THEN <<<<>>>> ELSE ToText(x)

-----------------------------------------------------------------------------
(* Outcome of a call that may throw *)

Ok(x) == [ok |-> TRUE, val |-> x]
Threw == [ok |-> FALSE, val |-> <<>>]

-----------------------------------------------------------------------------
(* ContextPacker: the Snippet Normalizer *)

\* this.TOKEN_PER_WORD, in tenths
TOKEN_PER_WORD_X10 == 13
\* this.SUMMARY_TOKEN_RATIO, in tenths
SUMMARY_TOKEN_RATIO_X10 == 3

\* Math.ceil(text.split(/\s+/).length * TOKEN_PER_WORD)
estimateTokenCount(text) ==
  LET words == IF text = <<>> THEN 1 ELSE Len(text)
  IN (words * TOKEN_PER_WORD_X10 + 9) \div 10

RECURSIVE tokenize(_)
\* lower-cased \w+ runs of the text, in order
tokenize(text) == IF text = <<>> THEN <<>> ELSE Head(text) \o tokenize(Tail(text))

Snippet(type, content, id, amount, date, category, symbol) ==
  [type |-> type, content |-> content, relevanceScore |-> 0,
   tokenCount |-> estimateTokenCount(content),
   metadata |-> [id |-> id, amount |-> amount, date |-> date,
                 category |-> category, symbol |-> symbol]]

createTransactionSnippet(item) ==
  LET amount == MathAbs(Or(Get(item, "amount"), Num(0)))
      merchant == Or(Or(Get(item, "merchant_name"), Get(item, "description")), S1("unknown"))
      rawCat == Get(item, "category")
      category == IF rawCat.t = "array"
                  THEN (IF Len(rawCat.v) > 0 THEN rawCat.v[1] ELSE Undef)
                  ELSE Or(rawCat, S1("other"))
      date == Or(Get(item, "date"), Str(<<<<"unknown">>, <<"date">>>>))
      content == <<ToFixed2(amount), <<"at">>>> \o ToText(merchant) \o Glued(category)
                 \o <<<<"on">>>> \o ToText(date)
  IN Ok(Snippet("transaction", content, Get(item, "id"), Get(item, "amount"),
                Get(item, "date"), category, Undef))

createAccountSnippet(item) ==
  LET name == Or(Get(item, "name"), Str(<<<<"unknown">>, <<"account">>>>))
      type == Or(Get(item, "type"), S1("account"))
      balance == Or(Or(Get(item, "balance_current"), Get(item, "balance_available")), Num(0))
      mask == IF Truthy(Get(item, "mask")) THEN Glued(Get(item, "mask")) ELSE <<<<>>>>
      content == ToText(name) \o mask \o <<ToFixed2(balance)>> \o ToText(type) \o <<<<"account">>>>
  IN IF ~HasToFixed(balance) THEN Threw
     ELSE Ok(Snippet("account", content, Get(item, "id"), balance, Undef, Undef, Undef))

createHoldingSnippet(item) ==
  LET symbol == Or(Get(item, "symbol"), S1("unknown"))
      name == Or(Or(Get(item, "security_name"), Get(item, "name")), symbol)
      quantity == Or(Get(item, "quantity"), Num(0))
      value == Or(Or(Get(item, "institution_value"), Get(item, "market_value")), Num(0))
      unrealizedPnL == Get(item, "unrealized_pnl")
      base == Glued(symbol) \o ToText(quantity) \o <<<<"shares">>, <<"of">>>> \o Glued(name)
              \o <<<<"value">>, ToFixed2(value)>>
      content == IF Truthy(unrealizedPnL)
                 THEN base \o <<<<"p", "l">>, ToFixed2(unrealizedPnL)>>
                 ELSE base
  IN IF ~HasToFixed(value) \/ (Truthy(unrealizedPnL) /\ ~HasToFixed(unrealizedPnL)) THEN Threw
     ELSE Ok(Snippet(IF Truthy(Get(item, "symbol")) THEN "holding" ELSE "position",
                     content, Get(item, "id"), value, Undef, Undef, symbol))

RECURSIVE KeyValues(_)
\* `${key}: ${value}` of the entries, joined by ', '
KeyValues(entries) ==
  IF entries = <<>> THEN <<>>
  ELSE <<<<Head(entries).k>>>> \o Glued(Head(entries).v) \o KeyValues(Tail(entries))

createGenericSnippet(item) ==
  LET present == SelectSeq(item.v, LAMBDA e : e.v.t \notin {"null", "undefined"})
      keyValues == KeyValues(SubSeq(present, 1, Min(3, Len(present))))
      content == IF keyValues = <<>>
                 THEN <<<<"no">>, <<"data">>, <<"available">>>>
                 ELSE keyValues
  IN Ok(Snippet("summary", content, Get(item, "id"), Undef, Undef, Undef, Undef))

\* variant: the holding rule is tried before the account rule
createSnippetHoldingFirst(item) ==
  IF item.t \in {"null", "undefined"} THEN Threw
  ELSE IF Get(item, "amount").t # "undefined" /\ Truthy(Get(item, "date"))
       THEN createTransactionSnippet(item)
  ELSE IF Get(item, "quantity").t # "undefined" /\ Truthy(Get(item, "symbol"))
       THEN createHoldingSnippet(item)
  ELSE IF Get(item, "balance_current").t # "undefined"
          \/ Get(item, "balance_available").t # "undefined"
       THEN createAccountSnippet(item)
  ELSE createGenericSnippet(item)

\* the body of the loop of createSnippets for one item
createSnippet(item) ==
  IF item.t \in {"null", "undefined"} THEN Threw
  ELSE IF Get(item, "amount").t # "undefined" /\ Truthy(Get(item, "date"))
       THEN createTransactionSnippet(item)
  ELSE IF Get(item, "balance_current").t # "undefined"
          \/ Get(item, "balance_available").t # "undefined"
       THEN createAccountSnippet(item)
  ELSE IF Get(item, "quantity").t # "undefined" /\ Truthy(Get(item, "symbol"))
       THEN createHoldingSnippet(item)
  ELSE createGenericSnippet(item)

createSnippets(items) ==
  LET each == [i \in 1..Len(items) |-> createSnippet(items[i])]
  IN IF \E i \in 1..Len(items) : ~each[i].ok THEN Threw
     ELSE Ok([i \in 1..Len(items) |-> each[i].val])

-----------------------------------------------------------------------------
(* ContextPacker: the Relevance Scorer *)

\* the date strings of the model and the hour new Date(s).getTime() falls in
DateStrings ==
  << [s |-> <<<<"2023", "01", "01">>>>, h |-> 0 - 365 * 24],
     [s |-> <<<<"2024", "01", "01">>>>, h |-> 0],
     [s |-> <<<<"2024", "01", "31">>>>, h |-> 30 * 24],
     [s |-> <<<<"2024", "06", "01">>>>, h |-> 152 * 24] >>

\* new Date(x).getTime(): NaN for a string that is no date
DateGetTime(x) ==
  IF x.t = "string" /\ \E i \in 1..Len(DateStrings) : DateStrings[i].s = x.v
  THEN Num(DateStrings[CHOOSE i \in 1..Len(DateStrings) : DateStrings[i].s = x.v].h)
  ELSE NaN

\* a.includes(b) on strings
Includes(a, b) ==
  \E i \in 1..(Len(a) - Len(b) + 1) : SubSeq(a, i, i + Len(b) - 1) = b

SeqHas(seq, x) == \E i \in 1..Len(seq) : seq[i] = x

\* variant: only the substring pairs are scored, the exact match adds nothing
tokenScorePairsOnly(queryToken, contentTokens) ==
  5 * Cardinality({i \in 1..Len(contentTokens) :
                     Includes(contentTokens[i], queryToken)
                     \/ Includes(queryToken, contentTokens[i])})

\* the score, in tenths, the inner loop adds for one query token
tokenScore(queryToken, contentTokens) ==
  (IF SeqHas(contentTokens, queryToken) THEN 10 ELSE 0)
  + 5 * Cardinality({i \in 1..Len(contentTokens) :
                       Includes(contentTokens[i], queryToken)
                       \/ Includes(queryToken, contentTokens[i])})

RECURSIVE SumSeq(_)
SumSeq(ns) == IF ns = <<>> THEN 0 ELSE Head(ns) + SumSeq(Tail(ns))

\* daysSinceItem <= 30, with clock the value of Date.now()
isRecent(date, clock) ==
  LET itemDate == DateGetTime(date)
  IN itemDate.t = "number" /\ clock - itemDate.v <= 30 * 24

\* snippet.metadata.amount && Math.abs(snippet.metadata.amount) > 1000
isHighValue(amount) ==
  Truthy(amount) /\ MathAbs(amount).t = "number" /\ MathAbs(amount).v > 1000

\* the score of one snippet, in tenths
relevanceOf(snippet, query, clock) ==
  LET queryTokens == tokenize(ToText(query))
      contentTokens == tokenize(snippet.content)
  IN SumSeq([q \in 1..Len(queryTokens) |-> tokenScore(queryTokens[q], contentTokens)])
     + (IF Truthy(snippet.metadata.date) /\ isRecent(snippet.metadata.date, clock)
        THEN 5 ELSE 0)
     + (IF isHighValue(snippet.metadata.amount) THEN 3 ELSE 0)

calculateRelevanceScores(snippets, query, clock) ==
  [i \in 1..Len(snippets) |->
     [snippets[i] EXCEPT !.relevanceScore = relevanceOf(snippets[i], query, clock)]]

-----------------------------------------------------------------------------
(* ContextPacker: the Diversity-Constrained Packer *)

RECURSIVE InsertSortedTiesFirst(_, _)
\* variant: x put before the elements of its own rank, as an unstable sort may
InsertSortedTiesFirst(sorted, x) ==
  IF sorted = <<>> THEN <<x>>
  ELSE IF Head(sorted).relevanceScore > x.relevanceScore
       THEN <<Head(sorted)>> \o InsertSortedTiesFirst(Tail(sorted), x)
       ELSE <<x>> \o sorted

RECURSIVE InsertSorted(_, _)
\* x put after every element that does not rank below it
InsertSorted(sorted, x) ==
  IF sorted = <<>> THEN <<x>>
  ELSE IF Head(sorted).relevanceScore >= x.relevanceScore
       THEN <<Head(sorted)>> \o InsertSorted(Tail(sorted), x)
       ELSE <<x>> \o sorted

RECURSIVE sortByRelevance(_)
\* [...snippets].sort((a, b) => b.relevanceScore - a.relevanceScore): stable
sortByRelevance(snippets) ==
  IF snippets = <<>> THEN <<>>
  ELSE InsertSorted(sortByRelevance(SubSeq(snippets, 1, Len(snippets) - 1)),
                    snippets[Len(snippets)])

\* a fraction times f tenths, in lowest terms for the factors 8, 7 and 6;
\* at or below 1/10 it stays at the floor of Math.max(0.1, ...)
Times(x, f) ==
  LET y == CASE f = 8 -> [n |-> x.n * 4, d |-> x.d * 5]
             [] f = 6 -> [n |-> x.n * 3, d |-> x.d * 5]
             [] OTHER -> [n |-> x.n * f, d |-> x.d * 10]
  IN IF x.n * 10 <= x.d \/ y.n * 10 <= y.d THEN [n |-> 1, d |-> 10] ELSE y

\* the factors one already selected snippet contributes
penalized(x, selectedSnippet, candidate) ==
  LET a == IF selectedSnippet.type = candidate.type THEN Times(x, 8) ELSE x
      sa == ToNumber(selectedSnippet.metadata.amount)
      ca == ToNumber(candidate.metadata.amount)
      b == IF Truthy(selectedSnippet.metadata.amount) /\ Truthy(candidate.metadata.amount)
              /\ sa.t = "number" /\ ca.t = "number" /\ Abs(sa.v - ca.v) < 50
           THEN Times(a, 7) ELSE a
  IN IF StrictEq(selectedSnippet.metadata.category, candidate.metadata.category)
        \/ StrictEq(selectedSnippet.metadata.symbol, candidate.metadata.symbol)
     THEN Times(b, 6) ELSE b

RECURSIVE diversityFold(_, _, _)
diversityFold(x, selected, candidate) ==
  IF selected = <<>> THEN x
  ELSE diversityFold(penalized(x, Head(selected), candidate), Tail(selected), candidate)

calculateDiversityScore(candidate, selected) ==
  diversityFold([n |-> 1, d |-> 1], selected, candidate)

\* options.maxItems || Math.min(50, sortedSnippets.length)
maxItemsOf(options, n) ==
  IF Truthy(options.maxItems) THEN options.maxItems.v ELSE Min(50, n)

\* variant: nothing is reserved for the aggregates
availableNoReserveX10(options) == 10 * options.tokenBudget

\* ten times availableTokens = tokenBudget - tokenBudget * SUMMARY_TOKEN_RATIO
availableTokensX10(options) ==
  IF Truthy(options.includeAggregates)
  THEN 10 * options.tokenBudget - options.tokenBudget * SUMMARY_TOKEN_RATIO_X10
  ELSE 10 * options.tokenBudget

\* variant: the running total is compared before the candidate is added
withinBudgetLate(totalTokens, tokenCount, limitX10) == 10 * totalTokens <= limitX10

\* totalTokens + tokenCount <= limit, the limit given in tenths
withinBudget(totalTokens, tokenCount, limitX10) ==
  10 * (totalTokens + tokenCount) <= limitX10

\* variant: the threshold a power of ten too low
aboveThresholdLow(relevanceScore, diversity) ==
  10 * relevanceScore * diversity.n > diversity.d

\* combinedScore > 0.1
aboveThreshold(relevanceScore, diversity) == relevanceScore * diversity.n > diversity.d

\* the state of the loop of packWithMMR before iteration i (counted from 1):
\* the positions selected so far, their token total, and where it broke (0: not yet)
LoopStart == [i |-> 1, picked |-> <<>>, totalTokens |-> 0, brokeAt |-> 0]

\* variant: a candidate over the budget is skipped and the loop goes on
mmrStepSkip(st, sorted, options) ==
  LET candidate == sorted[st.i]
      selected == [k \in 1..Len(st.picked) |-> sorted[st.picked[k]]]
  IN IF ~withinBudget(st.totalTokens, candidate.tokenCount, availableTokensX10(options))
     THEN [st EXCEPT !.i = st.i + 1]
     ELSE IF aboveThreshold(candidate.relevanceScore,
                            calculateDiversityScore(candidate, selected))
          THEN [st EXCEPT !.i = st.i + 1, !.picked = Append(st.picked, st.i),
                          !.totalTokens = st.totalTokens + candidate.tokenCount]
          ELSE [st EXCEPT !.i = st.i + 1]

\* variant: the loop does not look at the budget
mmrStepUnbounded(st, sorted, options) ==
  LET candidate == sorted[st.i]
      selected == [k \in 1..Len(st.picked) |-> sorted[st.picked[k]]]
  IN IF aboveThreshold(candidate.relevanceScore, calculateDiversityScore(candidate, selected))
     THEN [st EXCEPT !.i = st.i + 1, !.picked = Append(st.picked, st.i),
                     !.totalTokens = st.totalTokens + candidate.tokenCount]
     ELSE [st EXCEPT !.i = st.i + 1]

\* one iteration of the loop
mmrStep(st, sorted, options) ==
  LET candidate == sorted[st.i]
      selected == [k \in 1..Len(st.picked) |-> sorted[st.picked[k]]]
  IN IF ~withinBudget(st.totalTokens, candidate.tokenCount, availableTokensX10(options))
     THEN [st EXCEPT !.brokeAt = st.i]
     ELSE IF aboveThreshold(candidate.relevanceScore,
                            calculateDiversityScore(candidate, selected))
          THEN [st EXCEPT !.i = st.i + 1, !.picked = Append(st.picked, st.i),
                          !.totalTokens = st.totalTokens + candidate.tokenCount]
          ELSE [st EXCEPT !.i = st.i + 1]

\* variant: the loop counts the candidates accepted, not the candidates examined
mmrRunningAccepted(st, sorted, options) ==
  /\ st.brokeAt = 0 /\ st.i <= Len(sorted)
  /\ Len(st.picked) < maxItemsOf(options, Len(sorted))

\* the loop condition
mmrRunning(st, sorted, options) ==
  st.brokeAt = 0 /\ st.i <= Min(maxItemsOf(options, Len(sorted)), Len(sorted))

RECURSIVE mmrLoop(_, _, _)
mmrLoop(st, sorted, options) ==
  IF mmrRunning(st, sorted, options) THEN mmrLoop(mmrStep(st, sorted, options), sorted, options)
  ELSE st

\* the loop state packWithMMR ends in
mmrFinal(scored, options) == mmrLoop(LoopStart, sortByRelevance(scored), options)

packWithMMR(scored, options) ==
  LET sorted == sortByRelevance(scored)
      picked == mmrFinal(scored, options).picked
  IN [k \in 1..Len(picked) |-> sorted[picked[k]]]

-----------------------------------------------------------------------------
(* ContextPacker: the Aggregate Synthesizer and the Budget Trimmer *)

\* item.amount !== undefined && item.date
isTransactionLike(item) == Get(item, "amount").t # "undefined" /\ Truthy(Get(item, "date"))

\* t.amount > 0 and t.amount < 0
amountPositive(item) ==
  LET n == ToNumber(Get(item, "amount")) IN n.t = "number" /\ n.v > 0
amountNegative(item) ==
  LET n == ToNumber(Get(item, "amount")) IN n.t = "number" /\ n.v < 0

createAggregateSnippets(items) ==
  LET transactions == SelectSeq(items, isTransactionLike)
      spent == SelectSeq(transactions, amountPositive)
      income == SelectSeq(transactions, amountNegative)
      \* sum + t.amount concatenates once a string amount is met
      spentIsNumber == \A i \in 1..Len(spent) : Get(spent[i], "amount").t # "string"
      totalSpending == Num(SumSeq([i \in 1..Len(spent) |-> ToNumber(Get(spent[i], "amount")).v]))
      totalIncome == Num(SumSeq([i \in 1..Len(income) |->
                                   Abs(ToNumber(Get(income[i], "amount")).v)]))
      content == <<<<"summary">>, ToFixed2(totalSpending), <<"spent">>, ToFixed2(totalIncome),
                   <<"income">>, <<"from">>, <<ToString(Len(transactions))>>,
                   <<"transactions">>>>
  IN IF transactions = <<>> THEN Ok(<<>>)
     ELSE IF ~spentIsNumber THEN Threw
     ELSE Ok(<<[Snippet("summary", content, Undef, totalSpending, Undef, Undef, Undef)
                  EXCEPT !.relevanceScore = 100]>>)

sumTokens(snippets) == SumSeq([i \in 1..Len(snippets) |-> snippets[i].tokenCount])

RECURSIVE trimFrom(_, _, _)
\* the loop of trimToTokenBudget over the snippets left, totalTokens taken so far
trimFrom(snippets, totalTokens, budget) ==
  IF snippets = <<>> THEN <<>>
  ELSE IF withinBudget(totalTokens, Head(snippets).tokenCount, 10 * budget)
       THEN <<Head(snippets)>>
            \o trimFrom(Tail(snippets), totalTokens + Head(snippets).tokenCount, budget)
       ELSE <<>>

trimToTokenBudget(snippets, budget) == trimFrom(snippets, 0, budget)

\* Math.max(0, budget - usedTokens)
getRemainingTokens(snippets, budget) ==
  IF budget - sumTokens(snippets) > 0 THEN budget - sumTokens(snippets) ELSE 0

-----------------------------------------------------------------------------
(* ContextPacker.pack *)

\* finalSnippets.length / data.length, kept as a fraction
Ratio(n, d) == [n |-> n, d |-> d]
Zero == Ratio(0, 1)

\* variant: the card starts from a ratio of one
initialCardFull(items, options, clock) ==
  [query |-> options.query, snippets |-> <<>>, totalTokens |-> 0,
   compressionRatio |-> [n |-> 1, d |-> 1],
   metadata |-> [originalItemCount |-> Len(items), includedItemCount |-> 0,
                 tokenBudget |-> options.tokenBudget, packingStrategy |-> "mmr_temporal",
                 timestamp |-> clock]]

\* the card pack starts from, and returns for an empty list
initialCard(items, options, clock) ==
  [query |-> options.query, snippets |-> <<>>, totalTokens |-> 0, compressionRatio |-> Zero,
   metadata |-> [originalItemCount |-> Len(items), includedItemCount |-> 0,
                 tokenBudget |-> options.tokenBudget, packingStrategy |-> "mmr_temporal",
                 timestamp |-> clock]]

\* variant: the catch block reports no records, as the evidence builder's does
errorCardNoCount(items, options, clock) ==
  [query |-> options.query, snippets |-> <<>>, totalTokens |-> 0,
   compressionRatio |-> [n |-> 0, d |-> 1],
   metadata |-> [originalItemCount |-> 0, includedItemCount |-> 0,
                 tokenBudget |-> options.tokenBudget, packingStrategy |-> "error",
                 timestamp |-> clock]]

\* the card of the catch block
errorCard(items, options, clock) ==
  [query |-> options.query, snippets |-> <<>>, totalTokens |-> 0, compressionRatio |-> Zero,
   metadata |-> [originalItemCount |-> Len(items), includedItemCount |-> 0,
                 tokenBudget |-> options.tokenBudget, packingStrategy |-> "error",
                 timestamp |-> clock]]

\* variant: the aggregates are added whenever the budget allows, requested or not
withAggregatesUnasked(packedSnippets, items, options) ==
  IF getRemainingTokens(packedSnippets, options.tokenBudget) > 100
  THEN LET aggregateSnippets == createAggregateSnippets(items)
       IN IF aggregateSnippets.ok THEN Ok(aggregateSnippets.val \o packedSnippets) ELSE Threw
  ELSE Ok(packedSnippets)

\* packedSnippets after `if (options.includeAggregates && ...) unshift(...)`
withAggregates(packedSnippets, items, options) ==
  IF Truthy(options.includeAggregates)
     /\ getRemainingTokens(packedSnippets, options.tokenBudget) > 100
  THEN LET aggregateSnippets == createAggregateSnippets(items)
       IN IF aggregateSnippets.ok THEN Ok(aggregateSnippets.val \o packedSnippets) ELSE Threw
  ELSE Ok(packedSnippets)

\* pack from the resumption of `await this.createSnippets(...)` to its return:
\* created is the outcome of createSnippets, items the list as it is now, card the
\* card built before the await, clock the time now
packAfterAwait(created, items, options, card, clock) ==
  IF ~created.ok THEN errorCard(items, options, clock)
  ELSE LET scoredSnippets == calculateRelevanceScores(created.val, options.query, clock)
           packedSnippets == packWithMMR(scoredSnippets, options)
           aggregated == withAggregates(packedSnippets, items, options)
           finalSnippets == trimToTokenBudget(aggregated.val, options.tokenBudget)
       IN IF ~aggregated.ok THEN errorCard(items, options, clock)
          ELSE [card EXCEPT !.snippets = finalSnippets,
                            !.totalTokens = sumTokens(finalSnippets),
                            !.compressionRatio = IF Len(items) > 0
                                                 THEN Ratio(Len(finalSnippets), Len(items))
                                                 ELSE Zero,
                            !.metadata.includedItemCount = Len(finalSnippets)]

\* the card of a whole pack whose clock reads are callClock and resumeClock
pack(items, options, callClock, resumeClock) ==
  IF Len(items) = 0 THEN initialCard(items, options, callClock)
  ELSE packAfterAwait(createSnippets(items), items, options,
                      initialCard(items, options, callClock), resumeClock)

-----------------------------------------------------------------------------
(* EvidenceBuilder *)

\* the keys of an object for which data[field] !== undefined, among fields
presentFieldsOf(item, fields) == SelectSeq(fields, LAMBDA f : Get(item, f).t # "undefined")

\* Object.keys(data).slice(0, 5)
firstKeys(item) == [i \in 1..Min(5, Len(item.v)) |-> item.v[i].k]

extractEvidenceFromObject(item) ==
  IF item.t # "object" THEN <<>>
  ELSE
    LET itemId == Or(Or(Get(item, "id"), Get(item, "_id")), S1("unknown"))
        isTxn == Get(item, "amount").t # "undefined" /\ Truthy(Get(item, "date"))
        isAccount == Get(item, "balance_current").t # "undefined"
                     \/ Get(item, "balance_available").t # "undefined"
        isHolding == Get(item, "quantity").t # "undefined" /\ Truthy(Get(item, "symbol"))
        isOrder == Truthy(Get(item, "side")) /\ Truthy(Get(item, "quantity"))
        tableName ==
          CASE isTxn -> IF Truthy(Get(item, "investment_transaction_id"))
                        THEN "investment_transactions" ELSE "transactions"
            [] ~isTxn /\ isAccount -> "accounts"
            [] ~isTxn /\ ~isAccount /\ isHolding ->
                 IF Truthy(Get(item, "security_id")) THEN "holdings" ELSE "crypto_positions"
            [] ~isTxn /\ ~isAccount /\ ~isHolding /\ isOrder -> "crypto_orders"
            [] OTHER -> "unknown"
        fields ==
          CASE tableName \in {"transactions", "investment_transactions"} ->
                 <<"id", "date", "amount", "merchant_name", "category", "account_id">>
            [] tableName = "accounts" -> <<"id", "name", "type", "subtype", "balance_current">>
            [] tableName = "holdings" ->
                 <<"id", "symbol", "quantity", "institution_value", "account_id">>
            [] tableName = "crypto_positions" -> <<"id", "symbol", "quantity", "market_value">>
            [] tableName = "crypto_orders" ->
                 <<"id", "symbol", "side", "quantity", "status", "dry_run">>
            [] OTHER -> <<>>
        presentFields == presentFieldsOf(item, fields)
    IN <<[table |-> tableName, id |-> ToText(itemId),
          fields |-> IF Len(presentFields) > 0 THEN presentFields ELSE firstKeys(item)]>>

RECURSIVE extractEvidenceFromArray(_)
extractEvidenceFromArray(items) ==
  IF items = <<>> THEN <<>>
  ELSE extractEvidenceFromObject(Head(items)) \o extractEvidenceFromArray(Tail(items))

\* the sum a reduce over item[field] || 0 ends with: NaN once a term is no number
sumOf(items, field, absolute) ==
  LET term(i) == LET x == Or(Get(items[i], field), Num(0))
                 IN IF absolute THEN MathAbs(x) ELSE x
  IN IF \A i \in 1..Len(items) : term(i).t = "number"
     THEN Num(SumSeq([i \in 1..Len(items) |-> term(i).v]))
     ELSE NaN

\* item.category of the reduce in buildAggregations, as the key it becomes
categoryKey(item) ==
  LET c == Get(item, "category")
  IN IF c.t = "array" THEN (IF Len(c.v) > 0 THEN ToText(c.v[1]) ELSE ToText(Undef))
     ELSE ToText(c)

RECURSIVE distinctInOrder(_)
\* the elements of a sequence, each once, in the order of first appearance
distinctInOrder(xs) ==
  IF xs = <<>> THEN <<>>
  ELSE LET init == distinctInOrder(SubSeq(xs, 1, Len(xs) - 1))
       IN IF SeqHas(init, xs[Len(xs)]) THEN init ELSE Append(init, xs[Len(xs)])

buildAggregations(items) ==
  IF items = <<>> THEN Ok(<<>>)
  ELSE IF items[1].t # "object" THEN Threw
  ELSE IF /\ \E i \in 1..Len(items) : items[i].t # "object"
          /\ \/ Get(items[1], "amount").t # "undefined"
             \/ Get(items[1], "quantity").t # "undefined" /\ Truthy(Get(items[1], "market_value"))
             \/ Truthy(Get(items[1], "institution_value"))
       THEN Threw
  ELSE
    LET firstItem == items[1]
        tableName == IF Truthy(Get(firstItem, "investment_transaction_id"))
                     THEN "investment_transactions"
                     ELSE IF Truthy(Get(firstItem, "side")) THEN "crypto_orders"
                     ELSE "transactions"
        keys == [i \in 1..Len(items) |-> categoryKey(items[i])]
        groups == distinctInOrder(keys)
        amounts ==
          IF Get(firstItem, "amount").t # "undefined"
          THEN <<[table |-> tableName, operation |-> "sum", field |-> "amount",
                  value |-> sumOf(items, "amount", TRUE), count |-> Len(items),
                  groupBy |-> <<>>]>>
               \o (IF Truthy(Get(firstItem, "category"))
                   THEN [g \in 1..Len(groups) |->
                           [table |-> tableName, operation |-> "count", field |-> "category",
                            value |-> Num(Cardinality({i \in 1..Len(keys) : keys[i] = groups[g]})),
                            count |-> Len(items), groupBy |-> groups[g]]]
                   ELSE <<>>)
          ELSE <<>>
        positions ==
          IF Get(firstItem, "quantity").t # "undefined" /\ Truthy(Get(firstItem, "market_value"))
          THEN <<[table |-> "crypto_positions", operation |-> "sum", field |-> "market_value",
                  value |-> sumOf(items, "market_value", FALSE), count |-> Len(items),
                  groupBy |-> <<>>]>>
          ELSE <<>>
        holdings ==
          IF Truthy(Get(firstItem, "institution_value"))
          THEN <<[table |-> "holdings", operation |-> "sum", field |-> "institution_value",
                  value |-> sumOf(items, "institution_value", FALSE), count |-> Len(items),
                  groupBy |-> <<>>]>>
          ELSE <<>>
    IN Ok(amounts \o positions \o holdings)

buildDataLineage(items, options) ==
  LET crypto == Includes(options.toolName, "crypto")
      invest == Includes(options.toolName, "investment") \/ Includes(options.toolName, "holdings")
  IN [sources |-> <<[name |-> "finagent-database", type |-> "database",
                     lastRefresh |-> options.timestamp, recordCount |-> Len(items)]>>,
      transformations |->
        (IF Includes(options.toolName, "summary") THEN <<"aggregation", "grouping">> ELSE <<>>)
        \o (IF crypto THEN <<"price_calculation", "pnl_calculation">> ELSE <<>>)
        \o (IF invest THEN <<"valuation", "performance_metrics">> ELSE <<>>),
      dependencies |->
        <<"go-ingestion-service">> \o (IF crypto THEN <<"robinhood-api">> ELSE <<>>)
        \o (IF invest THEN <<"plaid-api">> ELSE <<>>)]

\* a score: its tenths, and the ulps by which the double lies above the double
\* nearest to that many tenths
ZeroScore == [tenths |-> 0, ulps |-> 0]

\* variant: the sum in the reals
PlusExact(score, tenths) == [tenths |-> score.tenths + tenths, ulps |-> 0]

\* score += 0.4 and score += 0.2 in IEEE 754 doubles, over the values the score
\* goes through: 0.4 + 0.2, 0.2 + 0.2 + 0.2 and 0.2 + 0.4 are 0.6000000000000001,
\* one ulp above the double 0.6; every other sum is the double of its decimal
PlusDouble(score, tenths) ==
  [tenths |-> score.tenths + tenths, ulps |-> IF score.tenths + tenths = 6 THEN 1 ELSE 0]

\* Math.min(1, score)
MinOne(score) == IF score.tenths >= 10 THEN [tenths |-> 10, ulps |-> 0] ELSE score

\* variant: no bonus for several source tables
calculateConfidenceScoreOneSource(evidence, aggregations, uniqueTables, timestamp, clock) ==
  LET a == IF Len(evidence) > 0 THEN PlusDouble(ZeroScore, 4) ELSE ZeroScore
      c == IF Len(aggregations) > 0 THEN PlusDouble(a, 2) ELSE a
      d == IF timestamp.t = "number" /\ timestamp.v > clock - 1 THEN PlusDouble(c, 2) ELSE c
  IN MinOne(d)

\* timestamp > hourAgo with clock the value of Date.now()
calculateConfidenceScore(evidence, aggregations, uniqueTables, timestamp, clock) ==
  LET a == IF Len(evidence) > 0 THEN PlusDouble(ZeroScore, 4) ELSE ZeroScore
      b == IF Len(uniqueTables) > 1 THEN PlusDouble(a, 2) ELSE a
      c == IF Len(aggregations) > 0 THEN PlusDouble(b, 2) ELSE b
      d == IF timestamp.t = "number" /\ timestamp.v > clock - 1 THEN PlusDouble(c, 2) ELSE c
  IN MinOne(d)

\* variant: the catch block still credits the freshness of the timestamp
minimalPackageFresh(options) ==
  [query |-> <<options.toolName, 0>>, evidence |-> <<>>, aggregations |-> <<>>,
   dataLineage |-> [sources |-> <<>>, transformations |-> <<>>, dependencies |-> <<>>],
   auditTrail |-> <<>>,
   metadata |-> [totalRecords |-> 0, uniqueTables |-> <<>>,
                 confidenceScore |-> IF options.timestamp.t = "number"
                                     THEN PlusDouble(ZeroScore, 2) ELSE ZeroScore,
                 timestamp |-> options.timestamp, toolsUsed |-> <<options.toolName>>]]

\* the package of the catch block
minimalPackage(options) ==
  [query |-> <<options.toolName, 0>>, evidence |-> <<>>, aggregations |-> <<>>,
   dataLineage |-> [sources |-> <<>>, transformations |-> <<>>, dependencies |-> <<>>],
   auditTrail |-> <<>>,
   metadata |-> [totalRecords |-> 0, uniqueTables |-> <<>>, confidenceScore |-> ZeroScore,
                 timestamp |-> options.timestamp, toolsUsed |-> <<options.toolName>>]]

\* EvidenceBuilder.build on an array; the query description is kept as the pair
\* of the tool name and the record count it is made of
build(items, options, clock) ==
  LET evidence == extractEvidenceFromArray(items)
      aggregations == IF Truthy(options.includeAggregations)
                      THEN buildAggregations(items) ELSE Ok(<<>>)
      auditTrail == IF Truthy(options.includeAuditTrail)
                    THEN <<[action |-> <<"execute_tool", options.toolName>>, timestamp |-> options.timestamp,
                            userId |-> options.userId, tool |-> options.toolName,
                            recordsAffected |-> 0]>>
                    ELSE <<>>
      uniqueTables == distinctInOrder([i \in 1..Len(evidence) |-> evidence[i].table])
  IN IF ~aggregations.ok THEN minimalPackage(options)
     ELSE [query |-> <<options.toolName, Len(items)>>, evidence |-> evidence,
           aggregations |-> aggregations.val,
           dataLineage |-> buildDataLineage(items, options),
           auditTrail |-> auditTrail,
           metadata |-> [totalRecords |-> Len(items), uniqueTables |-> uniqueTables,
                         confidenceScore |->
                           calculateConfidenceScore(evidence, aggregations.val, uniqueTables,
                                                    options.timestamp, clock),
                         timestamp |-> options.timestamp,
                         toolsUsed |-> <<options.toolName>>]]

-----------------------------------------------------------------------------
(* The place_crypto_order tool. Quantities are in hundredths of a unit, prices *)
(* in cents.                                                                   *)

SUPPORTED_SYMBOLS ==
  {"BTC", "ETH", "DOGE", "LTC", "BCH", "ETC", "BSV", "ADA", "XRP", "SOL", "MATIC", "AVAX",
   "DOT", "LINK", "UNI", "ALGO", "ATOM", "XLM", "COMP", "AAVE"}

\* MIN_ORDER_AMOUNTS[symbol] || 0.01 in hundredths; a minimum below 0.01 admits
\* every quantity of the model, as one hundredth does
minAmountX100(symbol) ==
  IF symbol \in {"DOGE", "ADA", "XRP", "MATIC", "ALGO", "XLM"} THEN 100 ELSE 1

USD_VALUE_THRESHOLD == 10000

\* estimatedPrices[symbol], in cents; 0 where the table has no entry
estimatedPrices(symbol) ==
  CASE symbol = "BTC" -> 4500000
    [] symbol = "ETH" -> 320000
    [] symbol = "DOGE" -> 8
    [] symbol = "LTC" -> 15000
    [] symbol = "BCH" -> 40000
    [] OTHER -> 0

\* variant: the caller's price is not used for the estimate
estimatedPriceReference(args) ==
  IF estimatedPrices(args.symbol) # 0 THEN estimatedPrices(args.symbol) ELSE 10000

\* args.price || estimatedPrices[args.symbol] || 100, in cents
estimatedPrice(args) ==
  IF Truthy(args.price) THEN args.price.v
  ELSE IF estimatedPrices(args.symbol) # 0 THEN estimatedPrices(args.symbol)
  ELSE 10000

\* quantity * price > threshold for a quantity in hundredths, a price in cents and
\* a threshold in dollars; the product is compared through the quotient
exceeds(quantityX100, priceCents, threshold) ==
  quantityX100 > (threshold * 10000) \div priceCents

\* the symbols of the model that match /^[A-Z]+$/
UpperCaseSymbols == SUPPORTED_SYMBOLS \cup {"XYZ"}

\* inputSchema.parse(args): the defaults applied, or a ZodError
parseOrder(args) ==
  IF \/ args.symbol \notin UpperCaseSymbols
     \/ args.side \notin {"buy", "sell"}
     \/ args.quantity <= 0
     \/ args.price.t = "number" /\ args.price.v <= 0
     \/ args.orderType = Str("limit") /\ args.price.t = "undefined"
     \/ args.quantity > 1000000 * 100
  THEN Threw
  ELSE Ok([args EXCEPT !.orderType = IF @ = Undef THEN Str("market") ELSE @,
                       !.dry_run = IF @ = Undef THEN Bool(TRUE) ELSE @])

\* the handler up to the request it sends to the ingestion service
orderRequestOf(args, userId) ==
  IF args.symbol \notin SUPPORTED_SYMBOLS THEN Threw
  ELSE IF args.quantity < minAmountX100(args.symbol) THEN Threw
  ELSE LET forced == exceeds(args.quantity, estimatedPrice(args), USD_VALUE_THRESHOLD)
                     /\ ~Truthy(args.dry_run)
       IN Ok([user_id |-> userId, symbol |-> args.symbol, side |-> args.side,
              quantity |-> args.quantity, order_type |-> args.orderType,
              price |-> args.price,
              dry_run |-> IF forced THEN Bool(TRUE) ELSE args.dry_run])

\* toolRegistry.execute('place_crypto_order', args, {userId}) up to the fetch:
\* what is sent, if anything
executeOrder(args, userId) ==
  LET validatedArgs == parseOrder(args)
  IN IF ~validatedArgs.ok THEN Threw ELSE orderRequestOf(validatedArgs.val, userId)

-----------------------------------------------------------------------------
(* The order rate limiter of the ingestion service (handlers/robinhood.go).   *)
(* redis is the value of the key order_rate_limit:<user>, 0 when the key is   *)
(* absent; calls holds, for every request in flight, where its handler is and *)
(* the count it read; admitted counts the requests let through since the key  *)
(* came to exist.                                                             *)

\* `if count >= 10`
ORDER_RATE_LIMIT == 10

Requests == 1..NumRequests

Arrived == [pc |-> "arrived", count |-> 0]

\* the limiter with the key at count, as that many admitted requests leave it
LimiterAt(count) ==
  /\ redis = count
  /\ admitted = count
  /\ calls = [r \in Requests |-> Arrived]

\* count, err := h.redis.Get(ctx, key).Int(): 0 with "redis: nil" for no key
ReadCounter(r) ==
  /\ calls[r].pc = "arrived"
  /\ calls' = [calls EXCEPT ![r] = [pc |-> "read", count |-> redis]]
  /\ UNCHANGED <<data, now, inv, orders, redis, admitted, registryVars>>

\* the rest of checkOrderRateLimit: the test of the count read, then INCR and
\* EXPIRE in one pipeline
CheckAndIncrement(r) ==
  /\ calls[r].pc = "read"
  /\ IF calls[r].count >= ORDER_RATE_LIMIT
     THEN /\ calls' = [calls EXCEPT ![r].pc = "rejected"]
          /\ UNCHANGED <<redis, admitted>>
     ELSE /\ calls' = [calls EXCEPT ![r].pc = "admitted"]
          /\ redis' = redis + 1
          /\ admitted' = admitted + 1
  /\ UNCHANGED <<data, now, inv, orders, registryVars>>

\* the key reaches its time to live, a minute after the last EXPIRE
KeyExpires ==
  /\ redis > 0
  /\ redis' = 0
  /\ admitted' = 0
  /\ UNCHANGED <<data, now, inv, orders, calls, registryVars>>

-----------------------------------------------------------------------------
(* The ToolRegistry of the MCP server. registry holds the maps tools and      *)
(* metrics (callCount and errorCount of each entry; the latencies are left    *)
(* out); execs holds the execute calls; history counts, for every tool name,  *)
(* the execute calls that have completed, and the register calls that threw.  *)

\* the tools the constructor registers
BuiltInTools == {"list_accounts", "get_crypto_positions"}

\* the names callers use: "ping" is a tool a caller may register, whose handler
\* resolves to no value; "nope" is never registered
ToolNames == BuiltInTools \cup {"ping", "nope"}

\* what the handler of a tool may settle with
HandlerOutcomes(name) ==
  IF name \in BuiltInTools THEN {"object", "rejects"} ELSE {"object", "undefined", "rejects"}

ExecIds == 1..NumExecs

NotCalled == [pc |-> "idle", name |-> "nope"]

\* the registry after its constructor
RegistryConstructed ==
  /\ registry = [tools |-> BuiltInTools,
                 metrics |-> [n \in BuiltInTools |-> [callCount |-> 0, errorCount |-> 0]]]
  /\ execs = [c \in ExecIds |-> NotCalled]
  /\ history = [completed |-> [n \in ToolNames |-> 0], registerThrew |-> 0]

\* updateMetrics(toolName, latency, isError) on the metrics map
updateMetrics(metrics, toolName, isError) ==
  IF toolName \notin DOMAIN metrics THEN metrics
  ELSE [metrics EXCEPT ![toolName] =
          [callCount |-> @.callCount + 1,
           errorCount |-> IF isError THEN @.errorCount + 1 ELSE @.errorCount]]

\* register(tool)
Register(name) ==
  /\ history.registerThrew < NumExecs
  /\ IF name \in registry.tools
     THEN /\ history' = [history EXCEPT !.registerThrew = @ + 1]
          /\ UNCHANGED registry
     ELSE /\ registry' =
               [tools |-> registry.tools \cup {name},
                metrics |-> [n \in registry.tools \cup {name} |->
                               IF n = name THEN [callCount |-> 0, errorCount |-> 0]
                               ELSE registry.metrics[n]]]
          /\ UNCHANGED history
  /\ UNCHANGED <<data, now, inv, orders, limiterVars, execs>>

\* execute(name, args, context) up to `await tool.handler(validatedArgs, context)`,
\* or to its throw for an unknown tool or for arguments the schema rejects
ExecuteCall(c, name, valid) ==
  /\ execs[c].pc = "idle"
  /\ IF name \notin registry.tools
     THEN /\ execs' = [execs EXCEPT ![c] = [pc |-> "thrown", name |-> name]]
          /\ UNCHANGED <<registry, history>>
     ELSE IF ~valid
     THEN /\ execs' = [execs EXCEPT ![c] = [pc |-> "thrown", name |-> name]]
          /\ registry' = [registry EXCEPT !.metrics = updateMetrics(@, name, TRUE)]
          /\ history' = [history EXCEPT !.completed[name] = @ + 1]
     ELSE /\ execs' = [execs EXCEPT ![c] = [pc |-> "awaiting", name |-> name]]
          /\ UNCHANGED <<registry, history>>
  /\ UNCHANGED <<data, now, inv, orders, limiterVars>>

\* execute from the settling of the handler to its return or throw: a result
\* without value makes `result.data` throw after the metrics were updated, and
\* the catch block updates them again
HandlerSettles(c, outcome) ==
  /\ execs[c].pc = "awaiting"
  /\ outcome \in HandlerOutcomes(execs[c].name)
  /\ LET name == execs[c].name
     IN /\ registry' = [registry EXCEPT !.metrics =
             CASE outcome = "object" -> updateMetrics(@, name, FALSE)
               [] outcome = "undefined" ->
                    updateMetrics(updateMetrics(@, name, FALSE), name, TRUE)
               [] OTHER -> updateMetrics(@, name, TRUE)]
        /\ execs' = [execs EXCEPT ![c].pc = IF outcome = "object" THEN "returned" ELSE "thrown"]
        /\ history' = [history EXCEPT !.completed[name] = @ + 1]
  /\ UNCHANGED <<data, now, inv, orders, limiterVars>>

-----------------------------------------------------------------------------
(* The inputs of the model *)

\* hours from the epoch of the model to the first clock value: 2024-01-31T00:00Z
ClockStart == 30 * 24

Entry(k, v) == [k |-> k, v |-> v]

LongText == [i \in 1..LongWords |-> <<"x">>]

Coffee ==
  Obj(<<Entry("id", S1("t1")), Entry("amount", Num(45)),
        Entry("date", Str(<<<<"2024", "01", "01">>>>)),
        Entry("merchant_name", S1("starbucks")),
        Entry("category", Arr(<<Str(<<<<"food">>, <<"and">>, <<"drink">>>>), S1("coffee")>>))>>)

Salary ==
  Obj(<<Entry("id", S1("t2")), Entry("amount", Num(0 - 3000)),
        Entry("date", Str(<<<<"2023", "01", "01">>>>)),
        Entry("description", S1("salary")), Entry("category", S1("income"))>>)

Memo ==
  Obj(<<Entry("amount", Num(0)), Entry("date", Str(<<<<"2024", "06", "01">>>>)),
        Entry("description", Str(LongText))>>)

Twelve ==
  Obj(<<Entry("id", S1("t4")), Entry("amount", S1("12")), Entry("date", S1("yesterday")),
        Entry("merchant_name", S1("starbucks")), Entry("category", S1("coffee"))>>)

Checking ==
  Obj(<<Entry("id", S1("a1")), Entry("name", S1("checking")), Entry("type", S1("depository")),
        Entry("mask", S1("1234")), Entry("balance_current", Num(70))>>)

Frozen ==
  Obj(<<Entry("id", S1("a2")), Entry("name", S1("frozen")),
        Entry("balance_current", Str(<<<<"n", "a">>>>))>>)

Apple ==
  Obj(<<Entry("id", S1("h1")), Entry("symbol", S1("aapl")), Entry("quantity", Num(10)),
        Entry("institution_value", Num(1500)), Entry("security_id", S1("s1"))>>)

Order ==
  Obj(<<Entry("side", S1("buy")), Entry("quantity", Num(2)), Entry("status", Null),
        Entry("note", S1("starbucks"))>>)

Catalogue == {Coffee, Memo, Twelve, Frozen, Apple, Null}

\* the transactions the longest lists are made of
Transactions == {Coffee, Memo, Twelve}

\* the lists below the longest length over all records, the longest over transactions
RecordLists ==
  UNION {[1..n -> Catalogue] : n \in 0..(MaxRecords - 1)} \cup [1..MaxRecords -> Transactions]

Queries == {S1("starbucks"), Str(<<<<"x">>, <<"coffee">>>>)}

PackOptions ==
  [query : Queries, tokenBudget : {100}, maxItems : {Undef},
   includeAggregates : {Undef, Bool(TRUE)}]
  \cup [query : {S1("starbucks")}, tokenBudget : {2500}, maxItems : {Undef, Num(1)},
        includeAggregates : {Undef, Bool(TRUE), Bool(FALSE)}]

\* the timestamps a caller may give at clock time c: now, two hours ago, no date
Timestamps(c) == {Num(c), Num(c - 2), NaN}

BuildOptions(c) ==
  [toolName : {"list_transactions", "get_holdings"},
   userId : {"u1"}, timestamp : Timestamps(c),
   includeAggregations : {Undef, Bool(TRUE)}, includeAuditTrail : {Undef}]

\* the narrower inputs of the concurrent runs
ConcLists == {<<>>, <<Coffee, Memo>>}

ConcPackOptions ==
  {[query |-> S1("starbucks"), tokenBudget |-> 2500, maxItems |-> Undef,
    includeAggregates |-> Bool(TRUE)],
   [query |-> Str(<<<<"x">>, <<"coffee">>>>), tokenBudget |-> 100, maxItems |-> Num(1),
    includeAggregates |-> Undef]}

ConcBuildOptions(c) ==
  {[toolName |-> "list_transactions", userId |-> "u1", timestamp |-> Num(c),
    includeAggregations |-> Undef, includeAuditTrail |-> Undef]}

-----------------------------------------------------------------------------
(* The invocations *)

Procs == 1..NumInv

NoOptions == [query |-> Undef, tokenBudget |-> 0, maxItems |-> Undef,
              includeAggregates |-> Undef]

\* an invocation slot not yet used
Idle ==
  [pc |-> "idle", fn |-> "none", options |-> NoOptions, created |-> Threw,
   card |-> initialCard(<<>>, NoOptions, 0), evidence |-> <<>>,
   callClock |-> 0, resumeClock |-> 0]

\* variant: the locals are kept on the shared packer instance, so a resumption
\* finds those of the latest call still awaiting
frameShared(i) == inv[CHOOSE j \in Procs : inv[j].pc = "awaiting"
                         /\ \A k \in Procs : inv[k].pc = "awaiting" => k <= j]

\* the local variables pack resumes with after its await: those of its own call
frameOf(i) == inv[i]

\* contextPacker.pack(data, options) up to `await this.createSnippets(data, options)`,
\* or to its return when the list is empty
PackCall(i, options) ==
  /\ inv[i].pc = "idle"
  /\ \A j \in 1..(i - 1) : inv[j].pc # "idle"
  /\ inv' = [inv EXCEPT ![i] =
       [@ EXCEPT !.fn = "pack", !.options = options, !.callClock = now,
                 !.card = initialCard(data, options, now),
                 !.created = IF Len(data) = 0 THEN Threw ELSE createSnippets(data),
                 !.resumeClock = now,
                 !.pc = IF Len(data) = 0 THEN "done" ELSE "awaiting"]]
  /\ UNCHANGED <<data, now, orders, limiterVars, registryVars>>

\* pack from the resumption after the await to its return
PackResume(i) ==
  /\ inv[i].pc = "awaiting"
  /\ LET f == frameOf(i)
     IN inv' = [inv EXCEPT ![i] =
          [@ EXCEPT !.card = packAfterAwait(f.created, data, f.options, f.card, now),
                    !.resumeClock = now, !.pc = "done"]]
  /\ UNCHANGED <<data, now, orders, limiterVars, registryVars>>

\* evidenceBuilder.build(data, options): synchronous
Build(i, options) ==
  /\ inv[i].pc = "idle"
  /\ \A j \in 1..(i - 1) : inv[j].pc # "idle"
  /\ inv' = [inv EXCEPT ![i] =
       [@ EXCEPT !.fn = "build", !.options = options, !.callClock = now,
                 !.resumeClock = now, !.evidence = build(data, options, now),
                 !.pc = "done"]]
  /\ UNCHANGED <<data, now, orders, limiterVars, registryVars>>

\* an hour passes
Tick ==
  /\ now < ClockStart + MaxTicks
  /\ now' = now + 1
  /\ UNCHANGED <<data, inv, orders, limiterVars, registryVars>>

Init ==
  /\ data \in RecordLists
  /\ now = ClockStart
  /\ inv = [i \in Procs |-> Idle]
  /\ orders = <<>>
  /\ LimiterAt(0) /\ RegistryConstructed

\* one invocation at a time, over all the inputs
Next ==
  \/ Tick
  \/ \E options \in PackOptions : PackCall(1, options)
  \/ PackResume(1)
  \/ \E options \in BuildOptions(now) : Build(1, options)

Spec == Init /\ [][Next]_vars

InitConc ==
  /\ data \in ConcLists
  /\ now = ClockStart
  /\ inv = [i \in Procs |-> Idle]
  /\ orders = <<>>
  /\ LimiterAt(0) /\ RegistryConstructed

\* invocations interleaved on the event loop
NextConc ==
  \/ Tick
  \/ \E i \in Procs :
       \/ \E options \in ConcPackOptions : PackCall(i, options)
       \/ PackResume(i)
       \/ \E options \in ConcBuildOptions(now) : Build(i, options)

SpecConc == InitConc /\ [][NextConc]_vars

Dividend ==
  Obj(<<Entry("id", S1("i1")), Entry("amount", Num(12)),
        Entry("date", Str(<<<<"2024", "01", "31">>>>)),
        Entry("investment_transaction_id", S1("i1"))>>)

Bitcoin ==
  Obj(<<Entry("id", S1("p1")), Entry("symbol", S1("btc")), Entry("quantity", Num(2)),
        Entry("market_value", Num(900))>>)

\* the number of positions of a list that hold a record of the set
CountIn(items, records) == Cardinality({k \in 1..Len(items) : items[k] \in records})

\* the lists of three transaction-like and two holding-like records, in every order
MixedLists ==
  {items \in [1..5 -> {Coffee, Dividend, Apple, Bitcoin}] :
     CountIn(items, {Coffee, Dividend}) = 3 /\ CountIn(items, {Apple, Bitcoin}) = 2}

InitEvidence ==
  /\ data \in MixedLists
  /\ now = ClockStart
  /\ inv = [i \in Procs |-> Idle]
  /\ orders = <<>>
  /\ LimiterAt(0) /\ RegistryConstructed

\* one build at a time, over the invocation metadata
NextEvidence ==
  \/ Tick
  \/ \E options \in BuildOptions(now) : Build(1, options)

SpecEvidence == InitEvidence /\ [][NextEvidence]_vars

\* the arguments callers give place_crypto_order: "btc" fails the schema and "XYZ"
\* is no supported symbol; 0.22 and 0.23 BTC lie on the two sides of $10000, as
\* do 100 and 200 units at $100; 0.22 is below the minimum of DOGE
OrderArgs ==
  [symbol : {"BTC", "DOGE", "SOL", "XYZ", "btc"}, side : {"buy"},
   quantity : {22, 23, 10000, 20000, 100000100},
   price : {Undef, Num(10000)}, orderType : {Undef, Str("limit")},
   dry_run : {Undef, Bool(TRUE), Bool(FALSE)}]

\* a caller runs the tool through the registry
PlaceOrder(args) ==
  /\ Len(orders) < MaxOrders
  /\ LET sent == executeOrder(args, "u1")
     IN orders' = Append(orders, [args |-> args, sent |-> sent.ok, request |-> sent.val])
  /\ UNCHANGED <<data, now, inv, limiterVars, registryVars>>

InitOrder ==
  /\ data = <<>>
  /\ now = ClockStart
  /\ inv = [i \in Procs |-> Idle]
  /\ orders = <<>>
  /\ LimiterAt(0) /\ RegistryConstructed

NextOrder == \E args \in OrderArgs : PlaceOrder(args)

SpecOrder == InitOrder /\ [][NextOrder]_vars

\* the inputs of the runs on maxItems: lists one longer than the others, of
\* transactions that suppress each other and a holding that does not
LongLists == [1..(MaxRecords + 1) -> {Coffee, Apple}]

LongOptions ==
  [query : {Str(<<<<"x">>, <<"coffee">>>>)}, tokenBudget : {2500},
   maxItems : {Num(1), Num(2), Num(3)}, includeAggregates : {Undef, Bool(TRUE)}]

InitLong ==
  /\ data \in LongLists
  /\ now = ClockStart
  /\ inv = [i \in Procs |-> Idle]
  /\ orders = <<>>
  /\ LimiterAt(0) /\ RegistryConstructed

\* one pack at a time, over the values of maxItems
NextLong ==
  \/ Tick
  \/ \E options \in LongOptions : PackCall(1, options)
  \/ PackResume(1)

SpecLong == InitLong /\ [][NextLong]_vars

\* records on the borders of the shape rules: a transaction with a balance, an
\* account with a quantity and a symbol, an amount without a date beside a
\* quantity and a symbol, and a record of no known shape
Settled ==
  Obj(<<Entry("id", S1("t5")), Entry("amount", Num(20)),
        Entry("date", Str(<<<<"2024", "01", "31">>>>)), Entry("balance_current", Num(70))>>)

Brokerage ==
  Obj(<<Entry("id", S1("a3")), Entry("name", S1("brokerage")), Entry("balance_available", Num(70)),
        Entry("quantity", Num(1)), Entry("symbol", S1("cash"))>>)

Undated ==
  Obj(<<Entry("id", S1("p2")), Entry("amount", Num(5)), Entry("date", Null),
        Entry("quantity", Num(1)), Entry("symbol", S1("eth"))>>)

Note == Obj(<<Entry("note", S1("starbucks"))>>)

ShapeRecords ==
  {Coffee, Dividend, Checking, Frozen, Apple, Bitcoin, Order, Settled, Brokerage, Undated, Note}

\* the inputs of the runs that compare the two classifications
ShapeLists == UNION {[1..n -> ShapeRecords] : n \in 1..(MaxRecords - 1)}

InitShape ==
  /\ data \in ShapeLists
  /\ now = ClockStart
  /\ inv = [i \in Procs |-> Idle]
  /\ orders = <<>>
  /\ LimiterAt(0) /\ RegistryConstructed

\* a pack and then a build of the same records, as the tool route runs them
NextShape ==
  \/ \E options \in ConcPackOptions : PackCall(1, options)
  \/ PackResume(1)
  \/ \E options \in ConcBuildOptions(now) : Build(2, options)

SpecShape == InitShape /\ [][NextShape]_vars

\* concurrent order requests of one user, from every state of the key that
\* admitted requests leave behind
InitLimiter ==
  /\ data = <<>>
  /\ now = ClockStart
  /\ inv = [i \in Procs |-> Idle]
  /\ orders = <<>>
  /\ \E count \in 0..ORDER_RATE_LIMIT : LimiterAt(count)
  /\ RegistryConstructed

NextLimiter ==
  \/ \E r \in Requests : ReadCounter(r)
  \/ \E r \in Requests : CheckAndIncrement(r)
  \/ KeyExpires

SpecLimiter == InitLimiter /\ [][NextLimiter]_vars

\* register and execute calls interleaved on the event loop
InitRegistry ==
  /\ data = <<>>
  /\ now = ClockStart
  /\ inv = [i \in Procs |-> Idle]
  /\ orders = <<>>
  /\ LimiterAt(0) /\ RegistryConstructed

NextRegistry ==
  \/ \E name \in {"ping", "list_accounts"} : Register(name)
  \/ \E c \in ExecIds, name \in ToolNames, valid \in BOOLEAN : ExecuteCall(c, name, valid)
  \/ \E c \in ExecIds, outcome \in {"object", "undefined", "rejects"} : HandlerSettles(c, outcome)

SpecRegistry == InitRegistry /\ [][NextRegistry]_vars

\* the inputs of the runs that compare queries: lists of records that normalize
ScoreLists == UNION {[1..n -> {Coffee, Salary, Twelve, Apple}] : n \in 1..(MaxRecords - 1)}

ScoreQueries ==
  {S1("unrelated"), S1("starbucks"), Str(<<<<"unrelated">>, <<"starbucks">>>>),
   Str(<<<<"x">>, <<"coffee">>>>)}

ScoreOptions ==
  [query : ScoreQueries, tokenBudget : {2500}, maxItems : {Undef},
   includeAggregates : {Undef, Bool(FALSE)}]

InitScore ==
  /\ data \in ScoreLists
  /\ now = ClockStart
  /\ inv = [i \in Procs |-> Idle]
  /\ orders = <<>>
  /\ LimiterAt(0) /\ RegistryConstructed

\* one pack at a time, over the queries
NextScore ==
  \/ Tick
  \/ \E options \in ScoreOptions : PackCall(1, options)
  \/ PackResume(1)

SpecScore == InitScore /\ [][NextScore]_vars

-----------------------------------------------------------------------------
(* Properties of ContextPacker.pack *)

PackDone(i) == inv[i].fn = "pack" /\ inv[i].pc = "done"

\* pack ran its pipeline to the end: the card does not come from the catch block
PackedOk(i) ==
  PackDone(i) /\ Len(data) > 0 /\ inv[i].card.metadata.packingStrategy # "error"

\* the candidates of invocation i in the order packWithMMR examines them
sortedOf(i) ==
  sortByRelevance(calculateRelevanceScores(inv[i].created.val, inv[i].options.query,
                                           inv[i].resumeClock))

\* the state the selection loop of invocation i ended in
loopOf(i) == mmrLoop(LoopStart, sortedOf(i), inv[i].options)

\* the snippets at the positions picked, in the order accepted
snippetsAt(sorted, picked) == [k \in 1..Len(picked) |-> sorted[picked[k]]]

\* the record snippets the loop of invocation i selected
pickedOf(i) == snippetsAt(sortedOf(i), loopOf(i).picked)

\* the last n elements of a sequence
LastN(seq, n) == SubSeq(seq, Len(seq) - n + 1, Len(seq))

\* the snippets of a card end with the given selection
EndsWith(snippets, selection) ==
  /\ Len(snippets) >= Len(selection)
  /\ LastN(snippets, Len(selection)) = selection

\* ten times the budget left to the packer: tokenBudget less the 30% reserve
\* when aggregates are requested
AvailableX10(options) ==
  IF options.includeAggregates = Bool(TRUE) THEN 7 * options.tokenBudget
  ELSE 10 * options.tokenBudget

\* the token total of the positions picked before position p
PickedBefore(sorted, picked, p) ==
  SumSeq([k \in 1..Len(picked) |-> IF picked[k] < p THEN sorted[picked[k]].tokenCount ELSE 0])

\* C1: the card of every pack with tokenBudget in 100..4000 has totalTokens, the sum
\* of the token counts of its snippets, at most tokenBudget
C1_TotalTokensWithinBudget ==
  \A i \in Procs :
    PackDone(i) /\ inv[i].options.tokenBudget \in 100..4000 =>
      /\ inv[i].card.totalTokens = sumTokens(inv[i].card.snippets)
      /\ inv[i].card.totalTokens <= inv[i].options.tokenBudget

\* a pack whose loop stopped at a candidate over the budget and that returned snippets
C1_Witness ==
  \E i \in Procs :
    /\ PackedOk(i)
    /\ loopOf(i).brokeAt # 0
    /\ inv[i].card.snippets # <<>>
    /\ inv[i].options.tokenBudget = 100

\* C2: includedCount, the aggregate summary counted, is at most
\* min(maxItems, originalCount), maxItems being 50 when not given
C2_IncludedCountBound ==
  \A i \in Procs :
    PackDone(i) =>
      inv[i].card.metadata.includedItemCount
        <= Min(IF inv[i].options.maxItems.t = "number" THEN inv[i].options.maxItems.v ELSE 50,
               inv[i].card.metadata.originalItemCount)

\* some step of the pipeline of invocation i throws on the list
FailsInternally(i) ==
  \/ \E k \in 1..Len(data) : ~createSnippet(data[k]).ok
  \/ /\ inv[i].options.includeAggregates = Bool(TRUE)
     /\ inv[i].options.tokenBudget - sumTokens(pickedOf(i)) > 100
     /\ ~createAggregateSnippets(data).ok

\* C3: a pack in which a step fails on the list still returns, and returns the card
\* with strategy "error", no snippets, zero totals and the number of records given
C3_ErrorCardOnFailure ==
  \A i \in Procs :
    PackDone(i) /\ Len(data) > 0 /\ FailsInternally(i) =>
      /\ inv[i].card.metadata.packingStrategy = "error"
      /\ inv[i].card.snippets = <<>>
      /\ inv[i].card.totalTokens = 0
      /\ inv[i].card.compressionRatio = Zero
      /\ inv[i].card.metadata.includedItemCount = 0
      /\ inv[i].card.metadata.originalItemCount = Len(data)

\* a pack returned after failing on a list with a null entry or a non-numeric balance
C3_Witness ==
  \E i \in Procs :
    /\ PackDone(i)
    /\ \E k \in 1..Len(data) : data[k] \in {Null, Frozen}
    /\ \E k \in 1..Len(data) : data[k] = Coffee
    /\ inv[i].card.metadata.packingStrategy = "error"
    /\ inv[i].card.metadata.originalItemCount = Len(data)

\* C4: normalizing a record never fails whatever its fields hold, so no record of
\* a list of records turns the card of pack into the "error" card
C4_NormalizeNeverFails ==
  \A i \in Procs :
    PackDone(i) /\ (\A k \in 1..Len(data) : data[k].t = "object") =>
      /\ \A k \in 1..Len(data) : createSnippet(data[k]).ok
      /\ inv[i].card.metadata.packingStrategy # "error"

\* C5: once a candidate in relevance order would push the running total over the
\* available budget, no candidate at or after its position is selected; the
\* selection stays within the available budget and is what the card ends with
C5_HardStopAtBudget ==
  \A i \in Procs :
    PackedOk(i) =>
      LET sorted == sortedOf(i)
          picked == mmrLoop(LoopStart, sorted, inv[i].options).picked
          available == AvailableX10(inv[i].options)
      IN /\ \A p \in 1..Len(sorted) :
              10 * (PickedBefore(sorted, picked, p) + sorted[p].tokenCount) > available
                => \A k \in 1..Len(picked) : picked[k] < p
         /\ 10 * sumTokens(snippetsAt(sorted, picked)) <= available
         /\ EndsWith(inv[i].card.snippets, snippetsAt(sorted, picked))

\* a pack that stopped at a candidate over the budget although a later, cheaper
\* candidate would have fitted
C5_Witness ==
  \E i \in Procs :
    /\ PackedOk(i)
    /\ LET sorted == sortedOf(i)
           st == mmrLoop(LoopStart, sorted, inv[i].options)
       IN /\ st.brokeAt # 0
          /\ \E q \in (st.brokeAt + 1)..Len(sorted) :
               /\ q <= maxItemsOf(inv[i].options, Len(sorted))
               /\ 10 * (st.totalTokens + sorted[q].tokenCount) <= AvailableX10(inv[i].options)
               /\ sorted[q].relevanceScore > 1

\* the positions the loop examined without stopping at them
Examined(sorted, st, options) ==
  {p \in 1..Len(sorted) :
     /\ p <= maxItemsOf(options, Len(sorted))
     /\ st.brokeAt = 0 \/ p < st.brokeAt}

\* the snippets selected before position p
SelectedBefore(sorted, picked, p) ==
  snippetsAt(sorted, SelectSeq(picked, LAMBDA q : q < p))

\* relevance times diversity > 0.1 for the candidate at position p
CombinedAboveTenth(sorted, picked, p) ==
  LET diversity == calculateDiversityScore(sorted[p], SelectedBefore(sorted, picked, p))
  IN sorted[p].relevanceScore * diversity.n > diversity.d

\* C6: a candidate that fits is selected exactly when relevance x diversity > 0.1;
\* otherwise it is dropped for good and the loop goes on to the next candidate
C6_AcceptAboveThreshold ==
  \A i \in Procs :
    PackedOk(i) =>
      LET sorted == sortedOf(i)
          st == mmrLoop(LoopStart, sorted, inv[i].options)
          examined == Examined(sorted, st, inv[i].options)
      IN /\ \A p \in examined :
              (\E k \in 1..Len(st.picked) : st.picked[k] = p)
                <=> CombinedAboveTenth(sorted, st.picked, p)
         /\ \A k \in 1..Len(st.picked) :
              /\ st.picked[k] \in examined
              /\ k > 1 => st.picked[k - 1] < st.picked[k]
         /\ EndsWith(inv[i].card.snippets, snippetsAt(sorted, st.picked))

\* a pack that dropped a relevant candidate of the kind and category of two
\* selected ones because its combined score had fallen to 0.1 or less
C6_Witness ==
  \E i \in Procs :
    /\ PackedOk(i)
    /\ LET sorted == sortedOf(i)
           st == mmrLoop(LoopStart, sorted, inv[i].options)
       IN \E p \in Examined(sorted, st, inv[i].options) :
            /\ sorted[p].relevanceScore > 1
            /\ ~CombinedAboveTenth(sorted, st.picked, p)
            /\ \E k \in 1..Len(st.picked) :
                 /\ st.picked[k] < p
                 /\ sorted[st.picked[k]].type = sorted[p].type
                 /\ StrictEq(sorted[st.picked[k]].metadata.category,
                             sorted[p].metadata.category)

ResultsAsAlone ==
  \A i \in Procs :
    /\ PackDone(i) =>
         inv[i].card = pack(data, inv[i].options, inv[i].callClock, inv[i].resumeClock)
    /\ inv[i].fn = "build" /\ inv[i].pc = "done" =>
         inv[i].evidence = build(data, inv[i].options, inv[i].callClock)

C9_DefaultsAsDocumented ==
  \A i \in Procs :
    PackDone(i) =>
      /\ inv[i].options.includeAggregates = Undef =>
           inv[i].card = pack(data, [inv[i].options EXCEPT !.includeAggregates = Bool(TRUE)],
                              inv[i].callClock, inv[i].resumeClock)
      /\ inv[i].options.maxItems = Undef =>
           inv[i].card = pack(data, [inv[i].options EXCEPT !.maxItems = Num(50)],
                              inv[i].callClock, inv[i].resumeClock)

\* C10: pack on an empty list returns no snippets, totalTokens 0, compressionRatio 0
\* and includedCount 0, whatever the query and the options
C10_EmptyListEmptyCard ==
  \A i \in Procs :
    PackDone(i) /\ Len(data) = 0 =>
      /\ inv[i].card.snippets = <<>>
      /\ inv[i].card.totalTokens = 0
      /\ inv[i].card.compressionRatio = Zero
      /\ inv[i].card.metadata.includedItemCount = 0
      /\ inv[i].card.metadata.originalItemCount = 0

\* a pack of the empty list with aggregates requested has returned
C10_Witness ==
  \E i \in Procs :
    PackDone(i) /\ Len(data) = 0 /\ inv[i].options.includeAggregates = Bool(TRUE)

-----------------------------------------------------------------------------
(* Properties of the Relevance Scorer *)

\* the query with one more token written after it
WithToken(query, token) == Str(query.v \o <<<<token>>>>)

\* C11: adding to the query a token found among the tokens of a snippet raises
\* the relevance of the snippet by at least 1.5 at the same clock value; the
\* snippets of the card carry the relevance of their query, and a snippet with the
\* token "starbucks" scores higher under "starbucks" than under "unrelated"
C11_MatchingTokenRaisesRelevance ==
  \A i \in Procs :
    PackedOk(i) =>
      LET created == inv[i].created.val
          query == inv[i].options.query
          clock == inv[i].resumeClock
      IN /\ \A k \in 1..Len(created) :
              LET tokens == tokenize(created[k].content)
                  base == relevanceOf(created[k], query, clock)
              IN /\ \A token \in {tokens[t] : t \in 1..Len(tokens)} :
                      relevanceOf(created[k], WithToken(query, token), clock) >= base + 15
                 /\ SeqHas(tokens, "starbucks") =>
                      relevanceOf(created[k], S1("starbucks"), clock)
                        > relevanceOf(created[k], S1("unrelated"), clock)
         /\ \A k \in 1..Len(inv[i].card.snippets) :
              inv[i].card.snippets[k].relevanceScore
                = relevanceOf(inv[i].card.snippets[k], query, clock)

\* a pack under "unrelated" returned a snippet with the token "starbucks" that
\* scores exactly 1.5 more once "starbucks" is added to the query
C11_Witness ==
  \E i \in Procs :
    /\ PackedOk(i)
    /\ inv[i].options.query = S1("unrelated")
    /\ \E k \in 1..Len(inv[i].card.snippets) :
         LET snippet == inv[i].card.snippets[k]
         IN /\ SeqHas(tokenize(snippet.content), "starbucks")
            /\ relevanceOf(snippet, WithToken(inv[i].options.query, "starbucks"),
                           inv[i].resumeClock) = snippet.relevanceScore + 15

-----------------------------------------------------------------------------
(* Properties of EvidenceBuilder.build *)

BuildDone(i) == inv[i].fn = "build" /\ inv[i].pc = "done"

\* C12: build on an empty record list returns confidenceScore 0 and no source
\* table, whatever the tool name, the user and the timestamp
C12_EmptyListZeroConfidence ==
  \A i \in Procs :
    BuildDone(i) /\ Len(data) = 0 =>
      /\ inv[i].evidence.metadata.confidenceScore = ZeroScore
      /\ inv[i].evidence.metadata.uniqueTables = <<>>

\* the record is classified transaction-like by the first matching rule
TransactionLike(item) ==
  item.t = "object" /\ Get(item, "amount").t # "undefined" /\ Truthy(Get(item, "date"))

\* the record is classified holding/position-like by the first matching rule
HoldingLike(item) ==
  /\ item.t = "object" /\ ~TransactionLike(item)
  /\ Get(item, "balance_current").t = "undefined"
  /\ Get(item, "balance_available").t = "undefined"
  /\ Get(item, "quantity").t # "undefined" /\ Truthy(Get(item, "symbol"))

\* the list is made of three transaction-like and two holding-like records
ThreeAndTwo(items) ==
  /\ Len(items) = 5
  /\ Cardinality({k \in 1..Len(items) : TransactionLike(items[k])}) = 3
  /\ Cardinality({k \in 1..Len(items) : HoldingLike(items[k])}) = 2

\* the records of one kind agree on carrying the field that selects their table
AgreeOn(items, kind(_), field) ==
  \A k, l \in {m \in 1..Len(items) : kind(items[m])} :
    Truthy(Get(items[k], field)) <=> Truthy(Get(items[l], field))

\* C13 as stated: build on three transaction-like and two holding-like records
\* returns exactly 2 source tables and a confidenceScore of at least 0.6
C13_TwoTablesAsStated ==
  \A i \in Procs :
    BuildDone(i) /\ ThreeAndTwo(data) =>
      /\ Len(inv[i].evidence.metadata.uniqueTables) = 2
      /\ inv[i].evidence.metadata.confidenceScore.tenths >= 6

\* C13: build on three transaction-like and two holding-like records returns a
\* confidenceScore of at least 0.6 and between 2 and 4 source tables: exactly 2
\* when the transactions agree on carrying investment_transaction_id and the
\* holdings agree on carrying security_id
C13_TwoTablesWhenShapesAgree ==
  \A i \in Procs :
    BuildDone(i) /\ ThreeAndTwo(data) =>
      /\ inv[i].evidence.metadata.confidenceScore.tenths >= 6
      /\ Len(inv[i].evidence.metadata.uniqueTables) \in 2..4
      /\ AgreeOn(data, TransactionLike, "investment_transaction_id")
         /\ AgreeOn(data, HoldingLike, "security_id")
           => Len(inv[i].evidence.metadata.uniqueTables) = 2

\* a build without aggregations and with a timestamp older than an hour returned
\* exactly the tables transactions and holdings and a confidenceScore of 0.6
C13_Witness ==
  \E i \in Procs :
    /\ BuildDone(i) /\ ThreeAndTwo(data)
    /\ inv[i].evidence.aggregations = <<>>
    /\ inv[i].options.timestamp = Num(inv[i].callClock - 2)
    /\ inv[i].evidence.metadata.confidenceScore.tenths = 6
    /\ \E k \in 1..2 : inv[i].evidence.metadata.uniqueTables[k] = "transactions"
    /\ \E k \in 1..2 : inv[i].evidence.metadata.uniqueTables[k] = "holdings"
    /\ Len(inv[i].evidence.metadata.uniqueTables) = 2

\* C14: a build in which a step fails (aggregations over a list with a null
\* record) still returns, and returns the minimal package: no evidence item, no
\* aggregation, totalRecords 0, no source table, confidenceScore 0
C14_MinimalPackageOnFailure ==
  \A i \in Procs :
    /\ BuildDone(i)
    /\ Truthy(inv[i].options.includeAggregations) /\ ~buildAggregations(data).ok
    => /\ inv[i].evidence.evidence = <<>>
       /\ inv[i].evidence.aggregations = <<>>
       /\ inv[i].evidence.metadata.totalRecords = 0
       /\ inv[i].evidence.metadata.uniqueTables = <<>>
       /\ inv[i].evidence.metadata.confidenceScore = ZeroScore
       /\ inv[i].evidence.metadata.timestamp = inv[i].options.timestamp

\* a build with a fresh timestamp returned the minimal package for a list whose
\* first record is null and that holds a transaction
C14_Witness ==
  \E i \in Procs :
    /\ BuildDone(i)
    /\ Len(data) > 1 /\ data[1] = Null /\ \E k \in 1..Len(data) : data[k] = Coffee
    /\ Truthy(inv[i].options.includeAggregations)
    /\ inv[i].options.timestamp = Num(inv[i].callClock)
    /\ inv[i].evidence.metadata.totalRecords = 0
    /\ inv[i].evidence.metadata.confidenceScore = ZeroScore

-----------------------------------------------------------------------------
(* Properties of the place_crypto_order tool *)

\* the price, in cents, the estimate of an order is made with: the caller's if
\* given, else the tool's reference price, else $100
PriceOfEstimate(args) ==
  IF args.price.t = "number" THEN args.price.v
  ELSE CASE args.symbol = "BTC" -> 4500000
         [] args.symbol = "ETH" -> 320000
         [] args.symbol = "DOGE" -> 8
         [] args.symbol = "LTC" -> 15000
         [] args.symbol = "BCH" -> 40000
         [] OTHER -> 10000

\* quantity times price is at most $10000
AtMostTenThousand(args) == args.quantity <= (10000 * 100 * 100) \div PriceOfEstimate(args)

\* C15: a request is sent with dry_run = false only if the caller passed
\* dry_run = false and the estimated value of the order is at most $10000; every
\* other request sent carries dry_run = true
C15_RealOrderOnlyWhenSmallAndExplicit ==
  \A k \in 1..Len(orders) :
    orders[k].sent =>
      /\ orders[k].request.dry_run \in {Bool(TRUE), Bool(FALSE)}
      /\ orders[k].request.dry_run = Bool(FALSE) =>
           orders[k].args.dry_run = Bool(FALSE) /\ AtMostTenThousand(orders[k].args)

\* a request for 200 DOGE at a price of $100, asked with dry_run = false, was sent
\* with dry_run = true, and a request worth exactly $10000 with dry_run = false
C15_Witness ==
  \E k \in 1..Len(orders) :
    /\ orders[k].sent
    /\ orders[k].args.dry_run = Bool(FALSE)
    /\ orders[k].args.symbol = "DOGE" /\ orders[k].args.price = Num(10000)
    /\ \/ orders[k].args.quantity = 20000 /\ orders[k].request.dry_run = Bool(TRUE)
       \/ orders[k].args.quantity = 10000 /\ orders[k].request.dry_run = Bool(FALSE)

-----------------------------------------------------------------------------
(* Properties of the Aggregate Synthesizer and of the packer's multiplier *)

\* C16: when aggregates are requested and a record is transaction-like, the card
\* holds exactly one summary snippet, of relevance 10, and it is the first
C16_SummaryFirst ==
  \A i \in Procs :
    /\ PackDone(i) /\ inv[i].options.includeAggregates = Bool(TRUE)
    /\ inv[i].options.tokenBudget \in 100..4000
    /\ \E k \in 1..Len(data) : data[k].t = "object" /\ isTransactionLike(data[k])
    => /\ Len(inv[i].card.snippets) >= 1
       /\ inv[i].card.snippets[1].type = "summary"
       /\ inv[i].card.snippets[1].relevanceScore = 100
       /\ Cardinality({k \in 1..Len(inv[i].card.snippets) :
                         inv[i].card.snippets[k].type = "summary"}) = 1

\* both snippets carry the tag and with the same value
TagsMatch(a, b) == a.t \notin {"undefined", "null"} /\ b.t \notin {"undefined", "null"} /\ a = b

\* the 0.6 factor as stated: the category tags match or the symbol tags match
StatedTagFactor(selectedSnippet, candidate) ==
  \/ TagsMatch(selectedSnippet.metadata.category, candidate.metadata.category)
  \/ TagsMatch(selectedSnippet.metadata.symbol, candidate.metadata.symbol)

\* the 0.6 factor as line 335 applies it
AppliedTagFactor(selectedSnippet, candidate) ==
  \/ StrictEq(selectedSnippet.metadata.category, candidate.metadata.category)
  \/ StrictEq(selectedSnippet.metadata.symbol, candidate.metadata.symbol)

\* the two amounts are numbers, or numeric strings, less than 50 apart
AmountsClose(a, b) ==
  /\ ToNumber(a).t = "number" /\ ToNumber(b).t = "number"
  /\ Abs(ToNumber(a).v - ToNumber(b).v) < 50

\* the 0.7 factor as stated: both carry an amount and the amounts are within 50
StatedAmountFactor(selectedSnippet, candidate) ==
  /\ selectedSnippet.metadata.amount.t \notin {"undefined", "null"}
  /\ candidate.metadata.amount.t \notin {"undefined", "null"}
  /\ AmountsClose(selectedSnippet.metadata.amount, candidate.metadata.amount)

\* the 0.7 factor as lines 327-331 apply it
AppliedAmountFactor(selectedSnippet, candidate) ==
  /\ Truthy(selectedSnippet.metadata.amount) /\ Truthy(candidate.metadata.amount)
  /\ AmountsClose(selectedSnippet.metadata.amount, candidate.metadata.amount)

RECURSIVE MultiplierWith(_, _, _, _, _)
\* the multiplier of a candidate against the selected snippets, floored at 0.1,
\* with the 0.7 and the 0.6 factor taken as stated or as applied
MultiplierWith(x, selected, candidate, amountAsStated, tagAsStated) ==
  IF selected = <<>> THEN x
  ELSE LET a == IF Head(selected).type = candidate.type THEN Times(x, 8) ELSE x
           am == IF amountAsStated THEN StatedAmountFactor(Head(selected), candidate)
                 ELSE AppliedAmountFactor(Head(selected), candidate)
           b == IF am THEN Times(a, 7) ELSE a
           tg == IF tagAsStated THEN StatedTagFactor(Head(selected), candidate)
                 ELSE AppliedTagFactor(Head(selected), candidate)
           c == IF tg THEN Times(b, 6) ELSE b
       IN MultiplierWith(c, Tail(selected), candidate, amountAsStated, tagAsStated)

\* C17: for every candidate the loop examines, the multiplier takes the 0.6 factor
\* of a selected snippet exactly when a category or symbol tag carried by both
\* has the same value
C17_TagFactorOnlyOnCarriedTags ==
  \A i \in Procs :
    PackedOk(i) =>
      LET sorted == sortedOf(i)
          st == mmrLoop(LoopStart, sorted, inv[i].options)
      IN \A p \in Examined(sorted, st, inv[i].options) :
           calculateDiversityScore(sorted[p], SelectedBefore(sorted, st.picked, p))
             = MultiplierWith([n |-> 1, d |-> 1], SelectedBefore(sorted, st.picked, p),
                              sorted[p], FALSE, TRUE)

\* C18: for every candidate the loop examines, the multiplier takes the 0.7 factor
\* of a selected snippet exactly when both carry an amount, 0 included, and the
\* amounts are within 50 of each other
C18_AmountFactorForEveryAmount ==
  \A i \in Procs :
    PackedOk(i) =>
      LET sorted == sortedOf(i)
          st == mmrLoop(LoopStart, sorted, inv[i].options)
      IN \A p \in Examined(sorted, st, inv[i].options) :
           calculateDiversityScore(sorted[p], SelectedBefore(sorted, st.picked, p))
             = MultiplierWith([n |-> 1, d |-> 1], SelectedBefore(sorted, st.picked, p),
                              sorted[p], TRUE, FALSE)

RECURSIVE mmrAfter(_, _, _)
\* the state of the selection loop after k iterations
mmrAfter(k, sorted, options) ==
  IF k = 0 THEN LoopStart
  ELSE LET st == mmrAfter(k - 1, sorted, options)
       IN IF mmrRunning(st, sorted, options) THEN mmrStep(st, sorted, options) ELSE st

\* C19: after every iteration of the selection loop the token total of the
\* snippets selected is at most tokenBudget - 0.3 * tokenBudget when aggregates
\* are requested, and at most tokenBudget when they are not
C19_SelectionWithinAvailableBudget ==
  \A i \in Procs :
    PackedOk(i) =>
      LET sorted == sortedOf(i)
      IN \A k \in 0..Len(sorted) :
           LET st == mmrAfter(k, sorted, inv[i].options)
           IN /\ st.totalTokens = sumTokens(snippetsAt(sorted, st.picked))
              /\ 10 * st.totalTokens <= AvailableX10(inv[i].options)

\* with aggregates requested the loop stopped at a candidate that fits the whole
\* budget but not the budget less the reserve
C19_Witness ==
  \E i \in Procs :
    /\ PackedOk(i) /\ inv[i].options.includeAggregates = Bool(TRUE)
    /\ LET sorted == sortedOf(i)
           st == mmrLoop(LoopStart, sorted, inv[i].options)
       IN /\ st.brokeAt # 0 /\ st.totalTokens > 0
          /\ st.totalTokens + sorted[st.brokeAt].tokenCount <= inv[i].options.tokenBudget
          /\ 10 * (st.totalTokens + sorted[st.brokeAt].tokenCount)
               > 7 * inv[i].options.tokenBudget

\* C20: no snippet ranked beyond position maxItems of the relevance order is
\* selected, so at most maxItems record snippets are selected and returned
C20_OnlyFirstMaxItemsExamined ==
  \A i \in Procs :
    PackedOk(i) /\ inv[i].options.maxItems.t = "number" =>
      LET sorted == sortedOf(i)
          picked == mmrLoop(LoopStart, sorted, inv[i].options).picked
      IN /\ \A k \in 1..Len(picked) : picked[k] <= inv[i].options.maxItems.v
         /\ Len(picked) <= inv[i].options.maxItems.v
         /\ EndsWith(inv[i].card.snippets, snippetsAt(sorted, picked))
         /\ Cardinality({k \in 1..Len(inv[i].card.snippets) :
                           inv[i].card.snippets[k].type # "summary"})
              <= inv[i].options.maxItems.v

\* a pack with maxItems 3 dropped the third candidate for its combined score,
\* selected 2, and left unexamined a fourth candidate that scores above 0.1
C20_Witness ==
  \E i \in Procs :
    /\ PackedOk(i) /\ inv[i].options.maxItems = Num(3)
    /\ LET sorted == sortedOf(i)
           st == mmrLoop(LoopStart, sorted, inv[i].options)
       IN /\ st.picked = <<1, 2>> /\ st.brokeAt = 0
          /\ Len(sorted) = 4
          /\ CombinedAboveTenth(sorted, st.picked, 4)

-----------------------------------------------------------------------------
(* Properties of the order and of the provenance of a card's snippets *)

\* the scored snippets of invocation i in the order of their records
scoredOf(i) ==
  calculateRelevanceScores(inv[i].created.val, inv[i].options.query, inv[i].resumeClock)

\* the place of the j-th snippet in the order by relevance descending, ties in
\* the order of the list
Rank(scored, j) ==
  1 + Cardinality({k \in 1..Len(scored) :
                     \/ scored[k].relevanceScore > scored[j].relevanceScore
                     \/ scored[k].relevanceScore = scored[j].relevanceScore /\ k < j})

\* C21: the record snippets of a card are in the order accepted, which is by
\* relevance descending with snippets of equal relevance in the order of their
\* records in the input list
C21_AcceptedOrderIsStableRelevanceOrder ==
  \A i \in Procs :
    PackedOk(i) =>
      LET scored == scoredOf(i)
          sorted == sortedOf(i)
          picked == mmrLoop(LoopStart, sorted, inv[i].options).picked
          records == snippetsAt(sorted, picked)
      IN /\ Len(sorted) = Len(scored)
         /\ \A j \in 1..Len(scored) : sorted[Rank(scored, j)] = scored[j]
         /\ \A k \in 2..Len(picked) : picked[k - 1] < picked[k]
         /\ \A k \in 2..Len(records) :
              records[k - 1].relevanceScore >= records[k].relevanceScore
         /\ EndsWith(inv[i].card.snippets, records)

\* a card of three record snippets whose first two have the same relevance and
\* differ, and whose last comes from the first record of the list
C21_Witness ==
  \E i \in Procs :
    /\ PackedOk(i) /\ Len(data) = 3
    /\ LET scored == scoredOf(i)
           snippets == inv[i].card.snippets
       IN /\ Len(snippets) = 3
          /\ snippets[1].relevanceScore = snippets[2].relevanceScore
          /\ snippets[1] # snippets[2]
          /\ snippets[1] = scored[2] /\ snippets[2] = scored[3]
          /\ snippets[3] = scored[1]
          /\ snippets[3].relevanceScore < snippets[2].relevanceScore

\* the snippets are those of distinct records of the list
OfDistinctRecords(snippets, scored) ==
  \E f \in [1..Len(snippets) -> 1..Len(scored)] :
    /\ \A k \in 1..Len(snippets) : snippets[k] = scored[f[k]]
    /\ \A k, l \in 1..Len(snippets) : k # l => f[k] # f[l]

\* C22: when aggregates are not requested every snippet of the card is the
\* normalization of a distinct input record and none is the aggregate summary,
\* the selection stops only at a candidate that exceeds the whole tokenBudget,
\* and includedCount <= min(maxItems, originalCount)
C22_NothingFromAggregatesUnlessRequested ==
  \A i \in Procs :
    PackedOk(i) /\ ~Truthy(inv[i].options.includeAggregates) =>
      LET scored == scoredOf(i)
          sorted == sortedOf(i)
          st == mmrLoop(LoopStart, sorted, inv[i].options)
          card == inv[i].card
          aggregate == createAggregateSnippets(data)
      IN /\ Len(card.snippets) <= Len(scored)
         /\ OfDistinctRecords(card.snippets, scored)
         /\ aggregate.ok =>
              \A k \in 1..Len(card.snippets) : ~SeqHas(aggregate.val, card.snippets[k])
         /\ st.brokeAt # 0 =>
              st.totalTokens + sorted[st.brokeAt].tokenCount > inv[i].options.tokenBudget
         /\ card.snippets = snippetsAt(sorted, st.picked)
         /\ card.metadata.includedItemCount = Len(card.snippets)
         /\ card.metadata.includedItemCount
              <= Min(maxItemsOf(inv[i].options, Len(data)), card.metadata.originalItemCount)

\* a pack told not to add aggregates, of transactions and with more than 100
\* tokens left, that returned as many snippets as maxItems allows
C22_Witness ==
  \E i \in Procs :
    /\ PackedOk(i) /\ inv[i].options.includeAggregates = Bool(FALSE)
    /\ inv[i].options.maxItems = Num(1) /\ Len(data) > 1
    /\ \A k \in 1..Len(data) : isTransactionLike(data[k])
    /\ Len(inv[i].card.snippets) = 1
    /\ inv[i].options.tokenBudget - inv[i].card.totalTokens > 100
    /\ createAggregateSnippets(data).ok /\ createAggregateSnippets(data).val # <<>>

-----------------------------------------------------------------------------
(* Properties of the confidence score, the aggregations and the lineage *)

\* the sum of the four bonuses of a package, in tenths, capped at 1.0
StatedConfidence(package, timestamp, clock) ==
  Min(10,
      (IF Len(package.evidence) > 0 THEN 4 ELSE 0)
      + (IF Len(package.metadata.uniqueTables) > 1 THEN 2 ELSE 0)
      + (IF Len(package.aggregations) > 0 THEN 2 ELSE 0)
      + (IF timestamp.t = "number" /\ timestamp.v > clock - 1 THEN 2 ELSE 0))

\* the package is the one build returns after an internal error
IsMinimalPackage(package) == package.dataLineage.sources = <<>>

PrimaryCategories(items) ==
  {categoryKey(items[k]) : k \in {j \in 1..Len(items) : Truthy(Get(items[j], "category"))}}

\* C24: build(records, {toolName, userId, timestamp}) on a list of transaction-like
\* records returns one sum record over amount whose value is the sum of the
\* absolute amounts, and exactly one count record per distinct primary category
C24_TransactionAggregations ==
  \A i \in Procs :
    /\ BuildDone(i) /\ inv[i].options.includeAggregations = Undef
    /\ Len(data) > 0
    /\ \A k \in 1..Len(data) : data[k].t = "object" /\ isTransactionLike(data[k])
    => LET aggregations == inv[i].evidence.aggregations
           sums == {k \in 1..Len(aggregations) :
                      aggregations[k].operation = "sum" /\ aggregations[k].field = "amount"}
       IN /\ Cardinality(sums) = 1
          /\ \A k \in sums : aggregations[k].value = sumOf(data, "amount", TRUE)
          /\ \A c \in PrimaryCategories(data) :
               Cardinality({k \in 1..Len(aggregations) :
                              /\ aggregations[k].operation = "count"
                              /\ aggregations[k].groupBy = c}) = 1

\* some record of the package went to one of the tables
SomeRecordOf(package, tables) ==
  \E k \in 1..Len(package.evidence) : package.evidence[k].table \in tables

\* C25: the lineage of a package built without internal error has a database
\* source; it lists price_calculation, pnl_calculation and the crypto API when a
\* record is a crypto position or order, and valuation, performance_metrics and
\* the banking API when a record is a holding or an investment transaction,
\* whatever the tool name
C25_LineageFollowsRecords ==
  \A i \in Procs :
    BuildDone(i) /\ ~IsMinimalPackage(inv[i].evidence) =>
      LET package == inv[i].evidence
          lineage == package.dataLineage
      IN /\ \E k \in 1..Len(lineage.sources) : lineage.sources[k].type = "database"
         /\ SomeRecordOf(package, {"crypto_positions", "crypto_orders"}) =>
              /\ SeqHas(lineage.transformations, "price_calculation")
              /\ SeqHas(lineage.transformations, "pnl_calculation")
              /\ SeqHas(lineage.dependencies, "robinhood-api")
         /\ SomeRecordOf(package, {"holdings", "investment_transactions"}) =>
              /\ SeqHas(lineage.transformations, "valuation")
              /\ SeqHas(lineage.transformations, "performance_metrics")
              /\ SeqHas(lineage.dependencies, "plaid-api")

-----------------------------------------------------------------------------
(* Properties of the classification of records *)

\* the shape class of a record by the rules in their order of precedence; amount,
\* the balances and quantity are present when not undefined, date and symbol
\* when truthy
ShapeClass(item) ==
  IF Get(item, "amount").t # "undefined" /\ Truthy(Get(item, "date")) THEN "transaction"
  ELSE IF Get(item, "balance_current").t # "undefined"
          \/ Get(item, "balance_available").t # "undefined" THEN "account"
  ELSE IF Get(item, "quantity").t # "undefined" /\ Truthy(Get(item, "symbol")) THEN "holding"
  ELSE "generic"

\* the snippet kinds and the source tables of a shape class
KindsOf(class) ==
  CASE class = "transaction" -> {"transaction"}
    [] class = "account" -> {"account"}
    [] class = "holding" -> {"holding", "position"}
    [] OTHER -> {"summary"}

TablesOf(class) ==
  CASE class = "transaction" -> {"transactions", "investment_transactions"}
    [] class = "account" -> {"accounts"}
    [] class = "holding" -> {"holdings", "crypto_positions"}
    [] OTHER -> {"crypto_orders", "unknown"}

\* C26: the snippet the Normalizer makes of a record and the evidence item the
\* Evidence Builder makes of it are of the same shape class, the one the rules
\* give in the order transaction, account, holding/position, generic
C26_SameShapeClass ==
  \A i, j \in Procs :
    inv[i].fn = "pack" /\ BuildDone(j) =>
      /\ Len(inv[j].evidence.evidence) = Len(data)
      /\ \A k \in 1..Len(data) :
           /\ inv[j].evidence.evidence[k].table \in TablesOf(ShapeClass(data[k]))
           /\ inv[i].created.ok =>
                inv[i].created.val[k].type \in KindsOf(ShapeClass(data[k]))

\* a transaction that also has a balance and an account that also has a quantity
\* and a symbol, normalized as a transaction and an account and traced to the
\* tables transactions and accounts
C26_Witness ==
  \E i, j \in Procs :
    /\ inv[i].fn = "pack" /\ BuildDone(j)
    /\ data = <<Settled, Brokerage>>
    /\ inv[i].created.ok
    /\ inv[i].created.val[1].type = "transaction" /\ inv[i].created.val[2].type = "account"
    /\ inv[j].evidence.evidence[1].table = "transactions"
    /\ inv[j].evidence.evidence[2].table = "accounts"

-----------------------------------------------------------------------------
(* Properties of the recency bonus and of the Budget Trimmer *)

\* the date lies within 30 days of the evaluation time, before it or after it
WithinThirtyDays(date, clock) ==
  LET itemDate == DateGetTime(date)
  IN itemDate.t = "number" /\ Abs(clock - itemDate.v) <= 30 * 24

\* the score of a snippet, in tenths, without the recency bonus
ScoreWithoutRecency(snippet, query) ==
  LET queryTokens == tokenize(ToText(query))
      contentTokens == tokenize(snippet.content)
  IN SumSeq([q \in 1..Len(queryTokens) |-> tokenScore(queryTokens[q], contentTokens)])
     + (IF isHighValue(snippet.metadata.amount) THEN 3 ELSE 0)

\* C27: the relevance of a record snippet includes the 0.5 recency bonus exactly
\* when the snippet carries a date tag within 30 days of the evaluation time
C27_RecencyWithinThirtyDays ==
  \A i \in Procs :
    PackedOk(i) /\ ~Truthy(inv[i].options.includeAggregates) =>
      \A k \in 1..Len(inv[i].card.snippets) :
        LET snippet == inv[i].card.snippets[k]
            bonus == snippet.relevanceScore - ScoreWithoutRecency(snippet, inv[i].options.query)
        IN bonus = IF /\ snippet.metadata.date.t \notin {"undefined", "null"}
                      /\ WithinThirtyDays(snippet.metadata.date, inv[i].resumeClock)
                   THEN 5 ELSE 0

\* C28: for tokenBudget in 100..4000 the sequence pack hands to the Budget Trimmer,
\* the aggregate summary if injected and then the selection, has a token total
\* of at most tokenBudget, and the card's snippets are that sequence
C28_TrimmerRemovesNothing ==
  \A i \in Procs :
    PackedOk(i) /\ inv[i].options.tokenBudget \in 100..4000 =>
      LET sorted == sortedOf(i)
          picked == mmrLoop(LoopStart, sorted, inv[i].options).picked
          handed == withAggregates(snippetsAt(sorted, picked), data, inv[i].options)
      IN /\ handed.ok
         /\ sumTokens(handed.val) <= inv[i].options.tokenBudget
         /\ inv[i].card.snippets = handed.val
         /\ inv[i].card.metadata.includedItemCount = Len(handed.val)
         /\ Len(handed.val) > Len(picked) =>
              /\ Truthy(inv[i].options.includeAggregates)
              /\ inv[i].options.tokenBudget - sumTokens(snippetsAt(sorted, picked)) > 100

\* a card that holds the injected summary and all three records of the list
C28_Witness ==
  \E i \in Procs :
    /\ PackedOk(i) /\ Len(data) = 3
    /\ Len(inv[i].card.snippets) = 4
    /\ inv[i].card.snippets[1].type = "summary" /\ inv[i].card.snippets[1].relevanceScore = 100
    /\ inv[i].card.totalTokens > inv[i].card.snippets[1].tokenCount
    /\ inv[i].card.totalTokens <= inv[i].options.tokenBudget

-----------------------------------------------------------------------------
(* Properties of the order rate limiter and of the ToolRegistry *)

\* C29: the requests checkOrderRateLimit admits while the user's counter key is
\* live never number more than 10, however the requests interleave
C29_AtMostTenAdmitted == admitted <= ORDER_RATE_LIMIT

\* C30: the metrics of every registered tool have errorCount <= callCount and
\* callCount equal to the number of execute calls for the tool that completed
C30_MetricsCountCompletedCalls ==
  \A name \in registry.tools :
    /\ registry.metrics[name].errorCount <= registry.metrics[name].callCount
    /\ registry.metrics[name].callCount = history.completed[name]

====
